---- MODULE Spec2Model ----
(***************************************************************************)
(* A model of spack-abi: the abidiff exit-code classifier and the          *)
(* cross-product comparator (abi/diff_product.py), the single comparison   *)
(* with its temporary suppression file (abi/diff.py, abi/abigail.py) and   *)
(* the suppression generator (abi/suppress.py, abi/abixml.py).             *)
(*                                                                         *)
(* Text is modelled as a sequence of atoms: "\n" is a line break, " " one  *)
(* space, every other atom a run of characters without line breaks.        *)
(***************************************************************************)
EXTENDS Integers, Sequences, FiniteSets, TLC

VARIABLES
    pc,             \* the position of the code that is running
    exc,            \* the exception that ended it ("none" while there is none)
    stdout,         \* the lines printed to sys.stdout
    rc,             \* diff_product: the exit code handed to the classifier
    diff_type,      \* diff_product: the classifier's verdict ("UNSET" before the call)
    lst,            \* diff_product: the list handed to cross_product_self
    comparisons,    \* diff_product: the pairs cross_product_self returned
    output_format,  \* DiffProductCmd.cmd: args.output_format
    outfile,        \* DiffProductCmd.cmd: the lines printed to outfile
    xml_doc,        \* abixml: the document handed to ABI.from_xml
    abi,            \* abixml: the corpus ABI.from_xml returned
    header,         \* suppress: the (types, functions, variables) lists of parse_header
    text,           \* suppress: the suppression text
    other,          \* suppress: a second run, on other variables: [abi, header_vars, text]
    names,          \* abixml: what ABI.type_and_function_names returned
    spec_libs,      \* XmlCmd.cmd: the list of binaries handed to ABI.from_binaries
    proc,           \* what the external process of this run (abidw, gcc) does
    header_text,    \* parse_headers: the preprocessed text, as its lines
    blocks,         \* parse_headers: the blocks _parse_blocks yielded
    symbols,        \* parse_headers: the symbols HeaderBlock.parse returned
    cmd,            \* the command that is running: "diff-product", "diff" or "none"
    run,            \* the number of the command run on this machine
    idx,            \* DiffProductCmd.cmd: the position in comparisons of the loop's pair
    verdicts,       \* DiffProductCmd.cmd: the verdict of each pair classified so far
    call,           \* diff_specs: its arguments [spec1, spec2, side1, side2, show_cmd]
    ncalls,         \* the number of diff_specs calls made so far on this machine
    suppression_txt,  \* diff_specs: the combined suppression text
    tf,             \* diff_specs: the name of its temporary file (0: none)
    suppression_file, \* diff_specs: the name handed to abidiff (0: None)
    result,         \* diff_specs: what abidiff returned, (result, args)
    tmpdir,         \* the directory of temporary files
    invocations     \* the runs of the abidiff executable in this command, in order

productVars == <<rc, diff_type, lst, comparisons, output_format, outfile>>
parseVars == <<names, spec_libs, proc, header_text, blocks, symbols>>
suppressVars == <<xml_doc, abi, header, text, other, parseVars>>
sweepVars == <<cmd, run, idx, verdicts>>
diffVars == <<call, ncalls, suppression_txt, tf, suppression_file, result, tmpdir, invocations>>
vars == <<pc, exc, stdout, productVars, suppressVars, sweepVars, diffVars>>

(***************************************************************************)
(* Bounds of the model.                                                    *)
(***************************************************************************)
MaxReturnCode == 15
MaxLen == 3
MaxDecls == 2
MaxElts == 2
MaxLines == 4
MaxNodes == 2
MaxRuns == 2
MaxTmpNames == 2

(***************************************************************************)
(* abigail.py: DiffExitCode(IntFlag).                                      *)
(***************************************************************************)
OK == 0
DIFF_ERROR == 1
USAGE_ERROR == 2
ABI_CHANGE == 4
INCOMPATIBLE_CHANGE == 8

\* Python's & on non-negative integers.
RECURSIVE BitAnd(_, _)
BitAnd(a, b) ==
    IF a = 0 \/ b = 0 THEN 0
    ELSE (a % 2) * (b % 2) + 2 * BitAnd(a \div 2, b \div 2)

(***************************************************************************)
(* diff_product.py: AbiDiffType and return_code_to_diff_type.              *)
(***************************************************************************)
AbiDiffType == {"NONE", "HARMLESS", "HARMFUL", "ERROR"}

\* A plausible slip: the two ABI-change verdicts exchanged.
return_code_to_diff_type_swapped(r) ==
    IF r = 0 THEN "NONE"
    ELSE IF BitAnd(r, ABI_CHANGE) = ABI_CHANGE
         THEN IF BitAnd(r, INCOMPATIBLE_CHANGE) = 0 THEN "HARMFUL" ELSE "HARMLESS"
         ELSE "ERROR"

return_code_to_diff_type(r) ==
    IF r = 0 THEN "NONE"
    ELSE IF BitAnd(r, ABI_CHANGE) = ABI_CHANGE
         THEN IF BitAnd(r, INCOMPATIBLE_CHANGE) = 0 THEN "HARMLESS" ELSE "HARMFUL"
         ELSE "ERROR"

(***************************************************************************)
(* diff_product.py: cross_product_self, the comprehension                  *)
(*   [(elt1, elt2) for i, elt1 in enumerate(lst)                           *)
(*                 for j, elt2 in enumerate(lst) if i != j]                *)
(* run as the two nested loops it is (positions counted from 1 here).      *)
(***************************************************************************)
RECURSIVE cross_product_loop(_, _, _, _)
cross_product_loop(l, i, j, acc) ==
    IF i > Len(l) THEN acc
    ELSE IF j > Len(l) THEN cross_product_loop(l, i + 1, 1, acc)
    ELSE cross_product_loop(l, i, j + 1,
                            IF i # j THEN Append(acc, <<l[i], l[j]>>) ELSE acc)

\* A plausible slip: pairs skipped by equality of the elements, not of the positions.
RECURSIVE cross_product_loop_by_value(_, _, _, _)
cross_product_loop_by_value(l, i, j, acc) ==
    IF i > Len(l) THEN acc
    ELSE IF j > Len(l) THEN cross_product_loop_by_value(l, i + 1, 1, acc)
    ELSE cross_product_loop_by_value(l, i, j + 1,
                            IF l[i] # l[j] THEN Append(acc, <<l[i], l[j]>>) ELSE acc)

cross_product_self_by_value(l) == cross_product_loop_by_value(l, 1, 1, <<>>)

cross_product_self(l) == cross_product_loop(l, 1, 1, <<>>)

(***************************************************************************)
(* abigail.py: print_cmd, the lines it prints.                             *)
(***************************************************************************)
Rule == <<"---------------">>

\* args is a list of texts, one per argument.
print_cmd(args) ==
    <<Rule, args[1]>>
    \o [k \in 1..(Len(args) - 1) |-> <<" ", " ">> \o args[k + 1]]
    \o <<Rule>>

(***************************************************************************)
(* diff_product.py: one pass of the loop of DiffProductCmd.cmd over a pair *)
(* ((u1, c1), (u2, c2)), given the value ret that diff_specs returned and  *)
(* the lines printed so far. ret is [none |-> TRUE] for None and           *)
(* [none |-> FALSE, result |-> ..., args |-> ...] for a tuple.             *)
(***************************************************************************)
ReturnNone == [none |-> TRUE]
ReturnTuple(res, args) == [none |-> FALSE, result |-> res, args |-> args]

CanSpliceLine(u1, u2, dt) ==
    <<"can_splice(\"", u1, "\", when=\"", u2, "\") #", dt>>
NoSpliceLine(u1, u2) == <<"# No splice ", u1, " and ", u2>>
UsageErrorLine(u1, u2) ==
    <<"abidiff reported a usage error when comparing ", u1, " and ", u2>>
ComparingLine(u1, c1, u2, c2) == <<"Comparing ", u1, ",", c1, " to ", u2, ",", c2>>

\* A plausible slip: the assertion is printed for a harmful change too.
CanSpliceCase_harmful(dt, u1, u2, args, of, so) ==
    CASE dt \in {"NONE", "HARMLESS", "HARMFUL"} ->
            [outfile |-> Append(of, CanSpliceLine(u1, u2, dt)), stdout |-> so]
      [] dt = "ERROR" ->
            [outfile |-> of,
             stdout |-> Append(so, UsageErrorLine(u1, u2)) \o print_cmd(args)]

\* The match statement of the can_splice format.
CanSpliceCase(dt, u1, u2, args, of, so) ==
    CASE dt \in {"NONE", "HARMLESS"} ->
            [outfile |-> Append(of, CanSpliceLine(u1, u2, dt)), stdout |-> so]
      [] dt = "HARMFUL" ->
            [outfile |-> of, stdout |-> Append(so, NoSpliceLine(u1, u2))]
      [] dt = "ERROR" ->
            [outfile |-> of,
             stdout |-> Append(so, UsageErrorLine(u1, u2)) \o print_cmd(args)]

LoopBody(p, ret, fmt, of, so) ==
    LET u1 == p[1][1]
        c1 == p[1][2]
        u2 == p[2][1]
        c2 == p[2][2]
    IN  IF ret.none
        THEN \* result, abidiff_args = None
             [exc |-> "TypeError", diff_type |-> "UNSET", outfile |-> of, stdout |-> so]
        ELSE LET dt == return_code_to_diff_type(ret.result.returncode)
                 out == CASE fmt = "can_splice" ->
                                 CanSpliceCase(dt, u1, u2, ret.args, of, so)
                          [] fmt = "summary" -> [outfile |-> of, stdout |-> so]
                          [] OTHER ->
                                 [outfile |-> of \o <<ComparingLine(u1, c1, u2, c2),
                                                      <<ret.result.stdout>>>>,
                                  stdout |-> Append(so, <<ret.result.stderr>>)]
             IN  [exc |-> "none", diff_type |-> dt,
                  outfile |-> out.outfile, stdout |-> out.stdout]

(***************************************************************************)
(* Python's str.join on texts, and the split of a text into its lines.     *)
(***************************************************************************)
RECURSIVE Join(_, _)
Join(sep, texts) ==
    IF Len(texts) = 0 THEN <<>>
    ELSE IF Len(texts) = 1 THEN texts[1]
    ELSE texts[1] \o sep \o Join(sep, Tail(texts))

NL == "\n"

\* text.split("\n"): one more line than there are line breaks.
RECURSIVE SplitLines(_, _)
SplitLines(t, cur) ==
    IF Len(t) = 0 THEN <<cur>>
    ELSE IF Head(t) = NL THEN <<cur>> \o SplitLines(Tail(t), <<>>)
    ELSE SplitLines(Tail(t), Append(cur, Head(t)))

Lines(t) == SplitLines(t, <<>>)

(***************************************************************************)
(* abixml.py: XML elements and the two accessors that fail. An element is  *)
(* [tag, attrs, children]: attrs a function from the names of the          *)
(* attributes it has to their values, children the child elements in       *)
(* document order. An Optional value is <<>> for None and <<v>> for v.     *)
(* What a call does is [raised, exc, value]: the value it returned, or the *)
(* exception it raised with the name that was looked up.                   *)
(***************************************************************************)
Returned(v) == [raised |-> FALSE, exc |-> "none", value |-> v]
RaisedWith(e, what) == [raised |-> TRUE, exc |-> e, value |-> what]

\* F applied to the value of e, e being evaluated once.
ByValue(F(_), e) == CHOOSE r \in {F(x) : x \in {e}} : TRUE

\* What a constructor call does, rs being what the calls that compute its
\* arguments did, in the order of evaluation: the first exception raised, or the
\* object v.
Construct(rs, v) ==
    IF \E k \in 1..Len(rs) : rs[k].raised
    THEN rs[CHOOSE k \in 1..Len(rs) : rs[k].raised /\ \A j \in 1..(k - 1) : ~rs[j].raised]
    ELSE Returned(v)

\* xelt.get(attr)
Get(xelt, attr) == IF attr \in DOMAIN xelt.attrs THEN <<xelt.attrs[attr]>> ELSE <<>>

\* xelt.findall(tag) and xelt.find(tag): direct children only.
findall(xelt, tag) == SelectSeq(xelt.children, LAMBDA x : x.tag = tag)
find(xelt, tag) ==
    ByValue(LAMBDA f : IF Len(f) = 0 THEN <<>> ELSE <<f[1]>>, findall(xelt, tag))

\* A plausible slip: a missing attribute read as the empty string.
_get_or_default(xelt, attr) ==
    IF Get(xelt, attr) = <<>> THEN Returned("") ELSE Returned(xelt.attrs[attr])

_get_or_fail(xelt, attr) ==
    IF Get(xelt, attr) = <<>> THEN RaisedWith("AttributeError", attr)
    ELSE Returned(xelt.attrs[attr])

_find_or_fail(xelt, node) ==
    ByValue(LAMBDA output : IF output = <<>> THEN RaisedWith("AttributeError", node)
                            ELSE Returned(output[1]),
            find(xelt, node))

\* int(s) of a string: the numerals of the model, ValueError for any other string.
IntOf == ("0" :> 0) @@ ("8" :> 8) @@ ("64" :> 64)
int(s) == IF s \in DOMAIN IntOf THEN Returned(IntOf[s]) ELSE RaisedWith("ValueError", s)

\* int(opt[1]) as an Optional when present is true, None when it is not.
OptionalInt(present, opt) ==
    IF present
    THEN ByValue(LAMBDA i : IF i.raised THEN i ELSE Returned(<<i.value>>), int(opt[1]))
    ELSE Returned(<<>>)

(***************************************************************************)
(* abixml.py: the dataclasses and their from_xmlelt. A declaration is a    *)
(* record with cls, the name of its dataclass, and the dataclass's fields. *)
(***************************************************************************)
TagOfClass ==
    [Symbol |-> "elf-symbol", VarDecl |-> "var-decl", TypeDecl |-> "type-decl",
     Parameter |-> "parameter", FunctionDecl |-> "function-decl",
     DataMember |-> "data-member", ClassDecl |-> "class-decl",
     TypedefDecl |-> "typedef-decl"]

RECURSIVE from_xmlelt(_, _)

\* ABIXML.as_children: "if parent" is false for None and for an element without
\* children.
as_children(cls, parent) ==
    IF parent = <<>> \/ Len(parent[1].children) = 0 THEN Returned(<<>>)
    ELSE ByValue(LAMBDA found :
                    ByValue(LAMBDA rs : Construct(rs, [k \in 1..Len(rs) |-> rs[k].value]),
                            [k \in 1..Len(found) |-> from_xmlelt(cls, found[k])]),
                 findall(parent[1], TagOfClass[cls]))

Symbol_from_xmlelt(xelt) ==
    ByValue(LAMBDA rs :
                Construct(rs,
                    [cls |-> "Symbol", name |-> rs[1].value, size |-> rs[2].value,
                     typ |-> rs[3].value, binding |-> rs[4].value,
                     visibility |-> rs[5].value, defined |-> (rs[6].value = "yes")]),
            <<_get_or_fail(xelt, "name"),
              IF Get(xelt, "size") = <<>> THEN Returned(0) ELSE int(xelt.attrs["size"]),
              _get_or_fail(xelt, "type"),
              _get_or_fail(xelt, "binding"),
              _get_or_fail(xelt, "visibility"),
              _get_or_fail(xelt, "is-defined")>>)

VarDecl_from_xmlelt(xelt) ==
    ByValue(LAMBDA rs :
                Construct(rs,
                    [cls |-> "VarDecl", name |-> rs[1].value, type_id |-> rs[2].value,
                     visibility |-> rs[3].value, filepath |-> Get(xelt, "filepath")]),
            <<_get_or_fail(xelt, "name"),
              _get_or_fail(xelt, "type-id"),
              _get_or_fail(xelt, "visibility")>>)

TypeDecl_from_xmlelt(xelt) ==
    ByValue(LAMBDA rs :
                Construct(rs,
                    [cls |-> "TypeDecl", name |-> rs[2].value, size |-> rs[1].value,
                     hash |-> Get(xelt, "hash"), id |-> rs[3].value]),
            <<OptionalInt(Get(xelt, "size-in-bits") # <<>>, Get(xelt, "size-in-bits")),
              _get_or_fail(xelt, "name"),
              _get_or_fail(xelt, "id")>>)

Parameter_from_xmlelt(xelt) ==
    Returned([cls |-> "Parameter", type_id |-> Get(xelt, "type-id"),
              name |-> Get(xelt, "name"),
              is_variadic |-> (Get(xelt, "is_variadic") = <<"yes">>)])

FunctionDecl_from_xmlelt(xelt) ==
    ByValue(LAMBDA rs :
                Construct(rs,
                    [cls |-> "FunctionDecl", name |-> rs[1].value,
                     mangled_name |-> Get(xelt, "mangled-name"),
                     filepath |-> Get(xelt, "filepath"), parameters |-> rs[2].value,
                     return_type_id |-> rs[3].value]),
            <<_get_or_fail(xelt, "name"),
              as_children("Parameter", <<xelt>>),
              ByValue(LAMBDA return : IF return.raised THEN return
                                      ELSE _get_or_fail(return.value, "type-id"),
                      _find_or_fail(xelt, "return"))>>)

\* A plausible slip: the nested function-decl probed first.
DataMember_from_xmlelt_function_first(xelt) ==
    ByValue(LAMBDA rs :
                Construct(rs,
                    [cls |-> "DataMember", access |-> rs[2].value,
                     layout_offset |-> rs[3].value, decl |-> rs[1].value]),
            <<ByValue(LAMBDA decl_xml :
                        IF decl_xml = <<>>
                        THEN ByValue(LAMBDA var_xml :
                                        IF var_xml.raised THEN var_xml
                                        ELSE VarDecl_from_xmlelt(var_xml.value),
                                     _find_or_fail(xelt, TagOfClass["VarDecl"]))
                        ELSE FunctionDecl_from_xmlelt(decl_xml[1]),
                      find(xelt, TagOfClass["FunctionDecl"])),
              _get_or_fail(xelt, "access"),
              ByValue(LAMBDA offset : IF offset.raised THEN offset ELSE int(offset.value),
                      _get_or_fail(xelt, "layout-offset-in-bits"))>>)

\* The nested var-decl is probed first; without one a function-decl is required.
DataMember_from_xmlelt(xelt) ==
    ByValue(LAMBDA rs :
                Construct(rs,
                    [cls |-> "DataMember", access |-> rs[2].value,
                     layout_offset |-> rs[3].value, decl |-> rs[1].value]),
            <<ByValue(LAMBDA decl_xml :
                        IF decl_xml = <<>>
                        THEN ByValue(LAMBDA fun_xml :
                                        IF fun_xml.raised THEN fun_xml
                                        ELSE FunctionDecl_from_xmlelt(fun_xml.value),
                                     _find_or_fail(xelt, TagOfClass["FunctionDecl"]))
                        ELSE VarDecl_from_xmlelt(decl_xml[1]),
                      find(xelt, TagOfClass["VarDecl"])),
              _get_or_fail(xelt, "access"),
              ByValue(LAMBDA offset : IF offset.raised THEN offset ELSE int(offset.value),
                      _get_or_fail(xelt, "layout-offset-in-bits"))>>)

\* "if opt_size" and "if opt_path" are false for None and for the empty string.
ClassDecl_from_xmlelt(xelt) ==
    LET opt_size == Get(xelt, "size-in-bits")
        opt_path == Get(xelt, "filepath")
    IN  ByValue(LAMBDA rs :
                    Construct(rs,
                        [cls |-> "ClassDecl", name |-> rs[2].value,
                         is_struct |-> (rs[3].value = "yes"), visibility |-> rs[4].value,
                         size |-> rs[1].value,
                         filepath |-> IF opt_path # <<>> /\ opt_path # <<"">>
                                      THEN opt_path ELSE <<>>,
                         hash |-> Get(xelt, "hash"), id |-> rs[5].value,
                         data_members |-> rs[6].value]),
                <<OptionalInt(opt_size # <<>> /\ opt_size # <<"">>, opt_size),
                  _get_or_fail(xelt, "name"),
                  _get_or_fail(xelt, "is-struct"),
                  _get_or_fail(xelt, "visibility"),
                  _get_or_fail(xelt, "id"),
                  as_children("DataMember", <<xelt>>)>>)

TypedefDecl_from_xmlelt(xelt) ==
    ByValue(LAMBDA rs :
                Construct(rs,
                    [cls |-> "TypedefDecl", name |-> rs[1].value,
                     member_id |-> rs[2].value, type_id |-> rs[3].value,
                     filepath |-> rs[4].value]),
            <<_get_or_fail(xelt, "name"),
              _get_or_fail(xelt, "type-id"),
              _get_or_fail(xelt, "id"),
              _get_or_fail(xelt, "filepath")>>)

\* cls.from_xmlelt(x), by the class as_children was called on.
from_xmlelt(cls, xelt) ==
    CASE cls = "Symbol" -> Symbol_from_xmlelt(xelt)
      [] cls = "VarDecl" -> VarDecl_from_xmlelt(xelt)
      [] cls = "TypeDecl" -> TypeDecl_from_xmlelt(xelt)
      [] cls = "Parameter" -> Parameter_from_xmlelt(xelt)
      [] cls = "FunctionDecl" -> FunctionDecl_from_xmlelt(xelt)
      [] cls = "DataMember" -> DataMember_from_xmlelt(xelt)
      [] cls = "ClassDecl" -> ClassDecl_from_xmlelt(xelt)
      [] cls = "TypedefDecl" -> TypedefDecl_from_xmlelt(xelt)

SuppressHeader(d) ==
    IF d.cls = "FunctionDecl" THEN "[suppress_function]" ELSE "[suppress_type]"

\* "\n  ".join(["[suppress_...]", f"name = {self.name}"])
to_suppression(d) ==
    Join(<<NL, " ", " ">>, <<<<SuppressHeader(d)>>, <<"name = ", d.name>>>>)

(***************************************************************************)
(* abixml.py: ABI.from_xml and ABI.type_and_function_names. A document is  *)
(* what ET.fromstring makes of the text: the root element, or NotXml for a *)
(* text that is not well-formed XML. The corpus is built list by list over *)
(* the abi-instr children of the root, and exists only when every call has *)
(* returned.                                                               *)
(***************************************************************************)
NotXml == [tag |-> "", attrs |-> <<>>, children |-> <<>>]

EmptyLists ==
    [type_decls |-> <<>>, class_decls |-> <<>>, fun_decls |-> <<>>,
     typedef_decls |-> <<>>, var_decls |-> <<>>]

\* The body of the loop over the abi-instr elements, acc being the five lists
\* so far.
RECURSIVE from_xml_instrs(_, _)
from_xml_instrs(instrs, acc) ==
    IF Len(instrs) = 0 THEN Returned(acc)
    ELSE ByValue(LAMBDA rs :
                    IF \E k \in 1..Len(rs) : rs[k].raised THEN Construct(rs, acc)
                    ELSE ByValue(LAMBDA lists : from_xml_instrs(Tail(instrs), lists),
                            [type_decls |-> acc.type_decls \o rs[1].value,
                             class_decls |-> acc.class_decls \o rs[2].value,
                             fun_decls |-> acc.fun_decls \o rs[3].value,
                             typedef_decls |-> acc.typedef_decls \o rs[4].value,
                             var_decls |-> acc.var_decls \o rs[5].value]),
                 <<as_children("TypeDecl", <<Head(instrs)>>),
                   as_children("ClassDecl", <<Head(instrs)>>),
                   as_children("FunctionDecl", <<Head(instrs)>>),
                   as_children("TypedefDecl", <<Head(instrs)>>),
                   as_children("VarDecl", <<Head(instrs)>>)>>)

from_xml(doc) ==
    IF doc = NotXml THEN RaisedWith("ParseError", "")
    ELSE ByValue(LAMBDA rs :
                    Construct(rs,
                        [path |-> rs[1].value, fun_symbols |-> rs[2].value,
                         var_symbols |-> rs[3].value,
                         class_decls |-> rs[4].value.class_decls,
                         fun_decls |-> rs[4].value.fun_decls,
                         type_decls |-> rs[4].value.type_decls,
                         typedef_decls |-> rs[4].value.typedef_decls,
                         var_decls |-> rs[4].value.var_decls]),
                 <<_get_or_fail(doc, "path"),
                   ByValue(LAMBDA funs : IF funs.raised THEN funs
                                         ELSE as_children("Symbol", <<funs.value>>),
                           _find_or_fail(doc, "elf-function-symbols")),
                   as_children("Symbol", find(doc, "elf-variable-symbols")),
                   from_xml_instrs(findall(doc, "abi-instr"), EmptyLists)>>)

NamesOf(decls) == [k \in 1..Len(decls) |-> decls[k].name]

\* A plausible slip: the names of the basic types counted among the type names.
type_and_function_names_with_type_decls(a) ==
    <<NamesOf(a.type_decls) \o NamesOf(a.class_decls) \o NamesOf(a.typedef_decls),
      NamesOf(a.fun_decls)>>

type_and_function_names(a) ==
    <<NamesOf(a.class_decls) \o NamesOf(a.typedef_decls), NamesOf(a.fun_decls)>>

(***************************************************************************)
(* parse_headers.py. A str is the sequence of its pieces, a line of the    *)
(* preprocessed text is [words, nodes]: words what line.split() returns,   *)
(* nodes the top-level syntax nodes tree-sitter makes of the line, in      *)
(* order. A node is [type, txt, declarator, name], txt its source text and *)
(* declarator and name the Optional child nodes of these field names. A    *)
(* block's text is the sequence of its lines. What a call does is          *)
(* [raised, exc, value, out], out the lines it printed.                    *)
(***************************************************************************)
NEW_FILE == 1
RETURNING_FILE == 2
SYSTEM_FILE == 3
EXTERN_TEXT == 4

FlagOf == ("1" :> NEW_FILE) @@ ("2" :> RETURNING_FILE) @@ ("3" :> SYSTEM_FILE)
          @@ ("4" :> EXTERN_TEXT)

HeaderSymbol(stype, n) == [stype |-> stype, symbol |-> n]

Done(v, printed) == [raised |-> FALSE, exc |-> "none", value |-> v, out |-> printed]
Failed(e, printed) == [raised |-> TRUE, exc |-> e, value |-> <<>>, out |-> printed]

\* node.child_by_field_name(field)
child_by_field_name(node, field) == node[field]

\* line.startswith("#"), line.isspace() or len(line) == 0
startswith_hash(line) ==
    Len(line.words) > 0 /\ Len(line.words[1]) > 0 /\ line.words[1][1] = "#"
is_blank(line) == Len(line.words) = 0

\* s[1:-1]
Inner(s) == SubSeq(s, 2, Len(s) - 1)

_parse_type_definition(node) ==
    LET declarator == child_by_field_name(node, "declarator")
    IN  IF declarator = <<>> THEN Failed("AssertionError", <<>>)
        ELSE IF declarator[1].type = "function_declarator"
        THEN LET child_declarator == child_by_field_name(declarator[1], "declarator")
             IN  IF child_declarator = <<>> THEN Failed("AssertionError", <<>>)
                 ELSE IF child_declarator[1].type # "parenthesized_declarator"
                 THEN Failed("AssertionError", <<>>)
                 ELSE Done(<<HeaderSymbol("TYPEDEF", Inner(child_declarator[1].txt))>>, <<>>)
        ELSE IF declarator[1].type = "type_identifier"
        THEN Done(<<HeaderSymbol("TYPEDEF", declarator[1].txt)>>, <<>>)
        ELSE IF declarator[1].type = "pointer_declarator"
        THEN IF child_by_field_name(declarator[1], "declarator") = <<>>
             THEN Failed("AttributeError", <<>>)
             ELSE Done(<<HeaderSymbol("TYPEDEF",
                            child_by_field_name(declarator[1], "declarator")[1].txt)>>, <<>>)
        ELSE Done(<<>>, <<<<"Unhandled declarator in _parse_type_definition: ",
                           declarator[1].type>>>>)

_parse_declaration(node) ==
    LET declarator == child_by_field_name(node, "declarator")
        name_node == child_by_field_name(declarator[1], "declarator")
    IN  IF declarator = <<>> THEN Failed("AssertionError", <<>>)
        ELSE IF declarator[1].type = "function_declarator"
        THEN IF name_node = <<>> THEN Failed("AttributeError", <<>>)
             ELSE IF name_node[1].type # "identifier" THEN Failed("AssertionError", <<>>)
             ELSE Done(<<HeaderSymbol("FUNDEF", name_node[1].txt)>>, <<>>)
        ELSE IF declarator[1].type = "pointer_declarator"
        THEN IF name_node = <<>> THEN Failed("AttributeError", <<>>)
             ELSE Done(<<HeaderSymbol("PTRDEF", name_node[1].txt)>>, <<>>)
        ELSE IF declarator[1].type = "identifier"
        THEN Done(<<HeaderSymbol("EXTERNDEF", declarator[1].txt)>>, <<>>)
        ELSE IF declarator[1].type = "array_declarator"
        THEN IF name_node = <<>> THEN Failed("AttributeError", <<>>)
             ELSE Done(<<HeaderSymbol("EXTERNDEF", name_node[1].txt)>>, <<>>)
        ELSE Done(<<>>, <<<<"Unhandled declarator in _parse_declaration: ",
                           declarator[1].type>>>>)

_parse_struct_specifier(node) ==
    IF child_by_field_name(node, "name") = <<>> THEN Failed("AttributeError", <<>>)
    ELSE Done(<<HeaderSymbol("STRUCTDEF", child_by_field_name(node, "name")[1].txt)>>, <<>>)

\* The bare except turns every failure into None.
_parse_enum_specifier(node) ==
    IF child_by_field_name(node, "name") = <<>> THEN Done(<<>>, <<>>)
    ELSE Done(<<HeaderSymbol("ENUMDEF", child_by_field_name(node, "name")[1].txt)>>, <<>>)

\* One turn of the loop of HeaderBlock.parse: the Optional symbol to append.
parse_node(node) ==
    CASE node.type = "type_definition" -> _parse_type_definition(node)
      [] node.type = "declaration" -> _parse_declaration(node)
      [] node.type = "struct_specifier" -> _parse_struct_specifier(node)
      [] node.type = "enum_specifier" -> _parse_enum_specifier(node)
      [] node.type = ";" -> Done(<<>>, <<>>)
      [] OTHER -> Done(<<>>, <<<<"Unhandled node: ", node.type>>>>)

RECURSIVE parse_loop(_, _, _)
parse_loop(nodes, acc, printed) ==
    IF Len(nodes) = 0 THEN Done(acc, printed)
    ELSE ByValue(LAMBDA r : IF r.raised THEN Failed(r.exc, printed \o r.out)
                            ELSE parse_loop(Tail(nodes), acc \o r.value, printed \o r.out),
                 parse_node(Head(nodes)))

RECURSIVE NodesOf(_)
NodesOf(lines) == IF Len(lines) = 0 THEN <<>> ELSE Head(lines).nodes \o NodesOf(Tail(lines))

TranslationUnit == [type |-> "translation_unit", txt |-> <<>>, declarator |-> <<>>, name |-> <<>>]

\* parser.parse(self.text).root_node.walk(): the top-level nodes of the text; the
\* cursor stays on the root node when the root has no child.
top_level_nodes(lines) ==
    IF Len(NodesOf(lines)) = 0 THEN <<TranslationUnit>> ELSE NodesOf(lines)

\* HeaderBlock.parse
HeaderBlock_parse(b) == parse_loop(top_level_nodes(b.txt), <<>>, <<>>)

\* No call of HeaderBlock.parse made yet.
NoParse == [of |-> 0, value |-> <<>>]

HeaderBlock(file, flags, txt) == [file |-> file, flags |-> flags, txt |-> txt]

\* [PreprocessorFlag(int(f)) for f in flags]
RECURSIVE parsed_flags(_)
parsed_flags(flags) ==
    IF Len(flags) = 0 THEN Done(<<>>, <<>>)
    ELSE IF Len(Head(flags)) # 1 \/ Head(flags)[1] \notin DOMAIN FlagOf
    THEN Failed("ValueError", <<>>)
    ELSE ByValue(LAMBDA r : IF r.raised THEN r
                            ELSE Done(<<FlagOf[Head(flags)[1]]>> \o r.value, <<>>),
                 parsed_flags(Tail(flags)))

_parse_file_line(line) ==
    IF Len(line.words) < 3 THEN Failed("ValueError", <<>>)
    ELSE ByValue(LAMBDA r : IF r.raised THEN r
                            ELSE Done(<<Inner(line.words[3]), r.value>>, <<>>),
                 parsed_flags(SubSeq(line.words, 4, Len(line.words))))

\* _parse_blocks, consumed to its end: the blocks yielded, and the exception that
\* ended the generator if one did.
RECURSIVE parse_blocks_loop(_, _, _, _)
parse_blocks_loop(lines, curr_header, curr_block_text, yielded) ==
    IF Len(lines) = 0
    THEN IF curr_header = <<>>
         THEN [raised |-> TRUE, exc |-> "TypeError", value |-> yielded, out |-> <<>>]
         ELSE Done(Append(yielded,
                          HeaderBlock(curr_header[1][1], curr_header[1][2], curr_block_text)),
                   <<>>)
    ELSE IF startswith_hash(Head(lines))
    THEN ByValue(LAMBDA h :
            IF curr_header = <<>>
            THEN IF h.raised
                 THEN [raised |-> TRUE, exc |-> h.exc, value |-> yielded, out |-> <<>>]
                 ELSE parse_blocks_loop(Tail(lines), <<h.value>>, curr_block_text, yielded)
            ELSE IF h.raised
                 THEN [raised |-> TRUE, exc |-> h.exc,
                       value |-> Append(yielded, HeaderBlock(curr_header[1][1],
                                            curr_header[1][2], curr_block_text)),
                       out |-> <<>>]
                 ELSE parse_blocks_loop(Tail(lines), <<h.value>>, <<>>,
                        Append(yielded, HeaderBlock(curr_header[1][1],
                                            curr_header[1][2], curr_block_text))),
            _parse_file_line(Head(lines)))
    ELSE IF is_blank(Head(lines))
    THEN parse_blocks_loop(Tail(lines), curr_header, curr_block_text, yielded)
    ELSE parse_blocks_loop(Tail(lines), curr_header,
                           Append(curr_block_text, Head(lines)), yielded)

_parse_blocks(lines) == parse_blocks_loop(lines, <<>>, <<>>, <<>>)

\* A plausible slip: the blocks of system headers kept.
keeps_block_any_origin(b) == Len(b.txt) > 0

\* The condition of the comprehension of parse_header.
keeps_block(b) ==
    Len(b.txt) > 0 /\ \A k \in 1..Len(b.flags) : b.flags[k] # SYSTEM_FILE

\* A plausible slip: the pointer declarations counted among the variables.
list_of_stype_ptr_as_var(stype) ==
    CASE stype = "FUNDEF" -> 2 [] stype \in {"EXTERNDEF", "PTRDEF"} -> 3 [] OTHER -> 1

\* _separate_symbols: the list a symbol is appended to, in the order of the
\* returned tuple (types, functions, variables).
list_of_stype(stype) ==
    CASE stype = "FUNDEF" -> 2 [] stype = "EXTERNDEF" -> 3 [] OTHER -> 1

_separate_symbols(lists, syms) ==
    [k \in 1..3 |-> lists[k] \o SelectSeq(syms, LAMBDA sym : list_of_stype(sym.stype) = k)]

RECURSIVE parse_blocks_in_order(_, _, _)
parse_blocks_in_order(bs, lists, printed) ==
    IF Len(bs) = 0 THEN Done(lists, printed)
    ELSE ByValue(LAMBDA r :
                    IF r.raised THEN Failed(r.exc, printed \o r.out)
                    ELSE parse_blocks_in_order(Tail(bs), _separate_symbols(lists, r.value),
                                               printed \o r.out),
                 HeaderBlock_parse(Head(bs)))

\* run_preproc on a header file gcc makes the lines of: what gcc -E does is
\* [kind, rc].
run_preproc(gcc, lines) ==
    IF gcc.kind = "missing" THEN Failed("FileNotFoundError", <<>>)
    ELSE IF gcc.rc # 0 THEN Failed("RuntimeError", <<>>)
    ELSE Done(lines, <<>>)

\* parse_header: [raised, exc, value, out, kept], kept the blocks it parses.
parse_header(gcc, lines) ==
    ByValue(LAMBDA pre :
        IF pre.raised THEN pre @@ [kept |-> <<>>]
        ELSE ByValue(LAMBDA bs :
                IF bs.raised THEN Failed(bs.exc, <<>>) @@ [kept |-> <<>>]
                ELSE ByValue(LAMBDA kept :
                                parse_blocks_in_order(kept, <<<<>>, <<>>, <<>>>>, <<>>)
                                @@ [kept |-> kept],
                             SelectSeq(bs.value, keeps_block)),
                _parse_blocks(pre.value)),
        run_preproc(gcc, lines))

(***************************************************************************)
(* suppress.py: suppression_for_binaries_from_header from the corpus abi   *)
(* and the three lists of parse_header on: the private declarations and    *)
(* the text made of their blocks. A header symbol is [stype, symbol].      *)
(***************************************************************************)
SymbolsOf(header_list) == {header_list[k].symbol : k \in 1..Len(header_list)}

private_types(a, header_types) ==
    SelectSeq(a.class_decls, LAMBDA cd : cd.name \notin SymbolsOf(header_types))
    \o SelectSeq(a.typedef_decls, LAMBDA td : td.name \notin SymbolsOf(header_types))

private_funcs(a, header_functions) ==
    SelectSeq(a.fun_decls, LAMBDA fd : fd.name \notin SymbolsOf(header_functions))

Suppressions(decls) == [k \in 1..Len(decls) |-> to_suppression(decls[k])]

\* A plausible slip: the declarations found in the header are the ones suppressed.
suppression_text_public(a, header_types, header_functions, header_vars) ==
    Join(<<NL>>,
         Suppressions(SelectSeq(a.class_decls \o a.typedef_decls,
                                LAMBDA d : d.name \in SymbolsOf(header_types)))
         \o Suppressions(SelectSeq(a.fun_decls,
                                LAMBDA d : d.name \in SymbolsOf(header_functions))))

\* A plausible slip: the function blocks are put before the type blocks.
suppression_text_funcs_first(a, header_types, header_functions, header_vars) ==
    Join(<<NL>>, Suppressions(private_funcs(a, header_functions))
                 \o Suppressions(private_types(a, header_types)))

\* A plausible slip: the blocks are joined with a blank line between them.
suppression_text_blank_line(a, header_types, header_functions, header_vars) ==
    Join(<<NL, NL>>, Suppressions(private_types(a, header_types))
                     \o Suppressions(private_funcs(a, header_functions)))

\* A plausible change: variables missing from the header are suppressed as well.
suppression_text_with_vars(a, header_types, header_functions, header_vars) ==
    Join(<<NL>>, Suppressions(private_types(a, header_types))
                 \o Suppressions(private_funcs(a, header_functions))
                 \o Suppressions(SelectSeq(a.var_decls,
                        LAMBDA vd : vd.name \notin SymbolsOf(header_vars))))

suppression_text(a, header_types, header_functions, header_vars) ==
    Join(<<NL>>, Suppressions(private_types(a, header_types))
                 \o Suppressions(private_funcs(a, header_functions)))

(***************************************************************************)
(* abigail.py: _which_ensure, _split_bins_and_dirs and abidiff. A binary   *)
(* is [dir, name]; the outcome of the tool is chosen by the environment:   *)
(* [kind |-> "missing"] when which() finds no executable, "oserror" when   *)
(* subprocess.run raises, "exit" with the return code otherwise.           *)
(***************************************************************************)
Raised(e) == [raised |-> TRUE, exc |-> e]

_which_ensure(cmd_name, tool) ==
    IF tool.kind = "missing" THEN Raised("RuntimeError")
    ELSE [raised |-> FALSE, exc |-> "none", path |-> <<"/usr/bin/", cmd_name>>]

AbsPath(b) == <<b.dir, "/", b.name>>

RECURSIVE DistinctDirs(_, _)
DistinctDirs(raw_bins, seen) ==
    IF Len(raw_bins) = 0 THEN <<>>
    ELSE IF Head(raw_bins).dir \in seen THEN DistinctDirs(Tail(raw_bins), seen)
    ELSE <<Head(raw_bins).dir>>
         \o DistinctDirs(Tail(raw_bins), seen \cup {Head(raw_bins).dir})

_split_bins_and_dirs(raw_bins) ==
    [files |-> Join(<<",">>, [k \in 1..Len(raw_bins) |-> <<raw_bins[k].name>>]),
     dirs |-> DistinctDirs(raw_bins, {})]

DirArgs(flag, dirs) ==
    [k \in 1..(2 * Len(dirs)) |->
        IF k % 2 = 1 THEN <<flag>> ELSE <<dirs[k \div 2]>>]

\* The name of a temporary file as a path.
TmpPath(n) == <<"/tmp/tmp", ToString(n)>>

\* abidiff's argument list; suppr is 0 for None.
abidiff_args(cmd_path, bins1, bins2, suppr, extra_args) ==
    LET a1 == _split_bins_and_dirs(Tail(bins1))
        a2 == _split_bins_and_dirs(Tail(bins2))
    IN  <<cmd_path>> \o extra_args
        \o (IF suppr # 0
            THEN <<<<"--suppr">>, TmpPath(suppr)>> ELSE <<>>)
        \o (IF Len(a1.files) > 0 THEN <<<<"--add-binaries1=">> \o a1.files>> ELSE <<>>)
        \o (IF Len(a2.files) > 0 THEN <<<<"--add-binaries2=">> \o a2.files>> ELSE <<>>)
        \o DirArgs("--added-binaries-dir1", a1.dirs)
        \o DirArgs("--added-binaries-dir2", a2.dirs)
        \o <<AbsPath(bins1[1]), AbsPath(bins2[1])>>

CompletedProcess(r) ==
    [returncode |-> r, stdout |-> "abidiff stdout", stderr |-> "abidiff stderr"]

\* abidiff: what it raises or returns, and what it prints before running.
abidiff(bins1, bins2, suppr, show_cmd, extra_args, tool) ==
    LET w == _which_ensure("abidiff", tool)
    IN  IF w.raised THEN [raised |-> TRUE, exc |-> w.exc, ran |-> FALSE, printed |-> <<>>]
        ELSE LET args == abidiff_args(w.path, bins1, bins2, suppr, extra_args)
                 shown == IF show_cmd THEN print_cmd(args) ELSE <<>>
             IN  IF tool.kind = "oserror"
                 THEN [raised |-> TRUE, exc |-> "OSError", ran |-> TRUE,
                       printed |-> shown, args |-> args]
                 ELSE [raised |-> FALSE, exc |-> "none", ran |-> TRUE, printed |-> shown,
                       args |-> args, result |-> CompletedProcess(tool.rc)]

(***************************************************************************)
(* abigail.py: abidw, and abixml.py: ABI.from_binaries, which hands abidw  *)
(* the name bin (Python's builtin function) where its parameter is bins;   *)
(* abidw unpacks its argument first.                                       *)
(***************************************************************************)
BuiltinBin == [iterable |-> FALSE, items |-> <<>>]
PathList(bins) == [iterable |-> TRUE, items |-> bins]

abidw(bins_arg, tool) ==
    IF ~bins_arg.iterable \/ Len(bins_arg.items) = 0
    THEN Raised(IF bins_arg.iterable THEN "ValueError" ELSE "TypeError")
    ELSE LET w == _which_ensure("abidw", tool)
         IN  IF w.raised THEN Raised(w.exc)
             ELSE IF tool.kind = "oserror" THEN Raised("OSError")
             ELSE [raised |-> FALSE, exc |-> "none",
                   result |-> [returncode |-> tool.rc, stdout |-> tool.stdout,
                               stderr |-> "abidw stderr"]]

from_binaries(bins, tool) ==
    ByValue(LAMBDA r :
                IF r.raised THEN Raised(r.exc)
                ELSE IF r.result.returncode # 0 THEN Raised("RuntimeError")
                ELSE ByValue(LAMBDA x :
                                IF x.raised THEN Raised(x.exc)
                                ELSE [raised |-> FALSE, exc |-> "none", abi |-> x.value,
                                      xml_str |-> r.result.stdout],
                             from_xml(r.result.stdout)),
            abidw(BuiltinBin, tool))

\* suppress.py: the whole of suppression_for_binaries_from_header; parsed is
\* what parse_header returns for the header.
suppression_for_binaries_from_header(binaries, parsed, tool) ==
    ByValue(LAMBDA r :
                IF r.raised THEN [raised |-> TRUE, exc |-> r.exc, text |-> <<>>]
                ELSE [raised |-> FALSE, exc |-> "none",
                      text |-> suppression_text(r.abi, parsed[1], parsed[2], parsed[3])],
            from_binaries(binaries, tool))

(***************************************************************************)
(* diff.py: diff_specs up to the with statement: the libraries of the two  *)
(* specs and the suppression text of each side. A side is "none",          *)
(* "header" (header1 given) or "suppr" (suppr1 given); env holds what the  *)
(* environment answers: whether the specs are installed, and per side      *)
(* whether the header is among the spec's headers, what abidw does, and    *)
(* the content of the handwritten file (or that it cannot be opened).      *)
(***************************************************************************)
LibsOf(c) ==
    IF c = "c2"
    THEN <<[dir |-> "/opt/c2/lib", name |-> "libc2.so"],
           [dir |-> "/opt/c2/lib", name |-> "libc2aux.so"]>>
    ELSE <<[dir |-> "/opt/c1/lib", name |-> "libc1.so"]>>

side_suppression(side, libs, e) ==
    CASE side = "header" ->
            IF ~e.header_found THEN [raised |-> TRUE, exc |-> "IndexError", text |-> <<>>]
            ELSE suppression_for_binaries_from_header(libs, e.parsed, e.tool)
      [] side = "suppr" ->
            IF ~e.readable THEN [raised |-> TRUE, exc |-> "OSError", text |-> <<>>]
            ELSE [raised |-> FALSE, exc |-> "none", text |-> e.text]
      [] OTHER -> [raised |-> FALSE, exc |-> "none", text |-> <<>>]

diff_specs_suppression_txt(c, env) ==
    IF ~env.installed THEN [raised |-> TRUE, exc |-> "SpackError", text |-> <<>>]
    ELSE ByValue(LAMBDA s1 :
                    IF s1.raised THEN s1
                    ELSE ByValue(LAMBDA s2 :
                                    IF s2.raised THEN s2
                                    ELSE [raised |-> FALSE, exc |-> "none",
                                          text |-> s1.text \o s2.text],
                                 side_suppression(c.side2, LibsOf(c.spec2), env.e2)),
                 side_suppression(c.side1, LibsOf(c.spec1), env.e1))

(***************************************************************************)
(* diff.py: the temporary file of diff_specs. The directory of temporary   *)
(* files maps a name to [exists, owner, content, open], owner being the    *)
(* number of the diff_specs call that made the file and 0 for a file of    *)
(* somebody else.                                                          *)
(***************************************************************************)
NoFile == [exists |-> FALSE, owner |-> 0, content |-> <<>>, open |-> FALSE]

\* NamedTemporaryFile: a name no existing file has.
FreeNames(dir) == {n \in DOMAIN dir : ~dir[n].exists}

created_file(dir, n, id) ==
    [dir EXCEPT ![n] = [exists |-> TRUE, owner |-> id, content |-> <<>>, open |-> TRUE]]

\* A plausible slip: tf.write without tf.close, the text still in the buffer of
\* the open file when the tool runs.
written_file_unclosed(dir, n, t) == dir

\* tf.write(suppression_txt.encode("utf8")); tf.close()
written_file(dir, n, t) == [dir EXCEPT ![n].content = t, ![n].open = FALSE]

\* A plausible slip: NamedTemporaryFile(delete=False), the file closed and kept.
tmp_exit_keep(dir, n) == [dir EXCEPT ![n].open = FALSE]

\* Leaving the with statement: the file is closed and removed.
tmp_exit(dir, n) == [dir EXCEPT ![n] = NoFile]

\* diff_specs has no return statement.
diff_specs_return(res, args) == ReturnNone

\* The lines diff_specs prints after the tool has returned.
diff_specs_print(res, args) ==
    IF BitAnd(res.returncode, USAGE_ERROR) = 1
    THEN <<<<"There was an error in running abidiff, below is the underlying command:">>>>
         \o print_cmd(args)
         \o <<<<"STDERR: ", res.stderr>>>>
    ELSE <<<<res.stdout>>, <<res.stderr>>>>

(***************************************************************************)
(* Values the variables of a part hold while another part runs.            *)
(***************************************************************************)
NoCorpus ==
    [path |-> "", fun_symbols |-> <<>>, var_symbols |-> <<>>, class_decls |-> <<>>,
     fun_decls |-> <<>>, type_decls |-> <<>>, typedef_decls |-> <<>>, var_decls |-> <<>>]
NoDocument == NotXml
NoOther == [abi |-> NoCorpus, header_vars |-> <<>>, text |-> <<>>]

IdleProduct ==
    /\ rc = 0
    /\ diff_type = "UNSET"
    /\ lst = <<>>
    /\ comparisons = <<>>
    /\ output_format = "raw"
    /\ outfile = <<>>

NoCall == [spec1 |-> "", spec2 |-> "", side1 |-> "none", side2 |-> "none", show_cmd |-> FALSE]

IdleDiff ==
    /\ cmd = "none"
    /\ run = 0
    /\ idx = 0
    /\ verdicts = <<>>
    /\ call = NoCall
    /\ ncalls = 0
    /\ suppression_txt = <<>>
    /\ tf = 0
    /\ suppression_file = 0
    /\ result = ReturnNone
    /\ tmpdir = <<>>
    /\ invocations = <<>>

NoTool == [kind |-> "none", rc |-> 0]

IdleParse ==
    /\ names = <<<<>>, <<>>>>
    /\ spec_libs = <<>>
    /\ proc = NoTool
    /\ header_text = <<>>
    /\ blocks = <<>>
    /\ symbols = NoParse

IdleSuppress ==
    /\ IdleParse
    /\ xml_doc = NoDocument
    /\ abi = NoCorpus
    /\ header = <<<<>>, <<>>, <<>>>>
    /\ text = <<>>
    /\ other = NoOther

(***************************************************************************)
(* Inputs of the pure functions.                                           *)
(***************************************************************************)
\* The elements paired by the sweep are (user spec, concrete spec) tuples.
Elts == {<<"u1", "c1">>, <<"u2", "c2">>}
Lists == UNION {[1..n -> Elts] : n \in 0..MaxLen}
OutputFormats == {"raw", "summary", "can_splice"}

(***************************************************************************)
(* SpecDiffType: the pure functions of diff_product.py applied to every    *)
(* exit code and every list within the bounds.                             *)
(***************************************************************************)
InitDiffType ==
    /\ pc = "start"
    /\ exc = "none"
    /\ stdout = <<>>
    /\ rc \in 0..MaxReturnCode
    /\ lst \in Lists
    /\ diff_type = "UNSET"
    /\ comparisons = <<>>
    /\ output_format \in OutputFormats
    /\ outfile = <<>>
    /\ IdleSuppress
    /\ IdleDiff

Classify ==
    /\ pc = "start"
    /\ diff_type' = return_code_to_diff_type(rc)
    /\ pc' = "classified"
    /\ UNCHANGED <<rc, lst, comparisons, output_format, outfile, stdout, exc>>
    /\ UNCHANGED <<suppressVars, sweepVars, diffVars>>

CrossProduct ==
    /\ pc = "classified"
    /\ comparisons' = cross_product_self(lst)
    /\ pc' = "crossed"
    /\ UNCHANGED <<rc, diff_type, lst, output_format, outfile, stdout, exc>>
    /\ UNCHANGED <<suppressVars, sweepVars, diffVars>>

\* The loop body applied to one of the pairs and to a comparison result as
\* abidiff returns it, (CompletedProcess, args), whose return code is rc.
ToolArgs(p) ==
    abidiff_args(<<"/usr/bin/", "abidiff">>, LibsOf(p[1][2]), LibsOf(p[2][2]), 0, <<>>)

RenderPair ==
    /\ pc = "crossed"
    /\ \E k \in 1..Len(comparisons) :
          LET r == LoopBody(comparisons[k],
                            ReturnTuple(CompletedProcess(rc), ToolArgs(comparisons[k])),
                            output_format, outfile, stdout)
          IN  /\ outfile' = r.outfile
              /\ stdout' = r.stdout
              /\ exc' = r.exc
              /\ diff_type' = r.diff_type
              /\ idx' = k
    /\ pc' = "rendered"
    /\ UNCHANGED <<rc, lst, comparisons, output_format, suppressVars>>
    /\ UNCHANGED <<cmd, run, verdicts, diffVars>>

NextDiffType == Classify \/ CrossProduct \/ RenderPair

SpecDiffType == InitDiffType /\ [][NextDiffType]_vars

(***************************************************************************)
(* SpecSuppress: ABI.from_xml and the suppression generator applied to     *)
(* every document and header surface within the bounds, and then once more *)
(* to the same corpus with other variables.                                *)
(***************************************************************************)
Names == {"Widget", "widget_free"}
Tags == {"class-decl", "typedef-decl", "function-decl", "var-decl"}
Elements == [tag : Tags, name : Names]
ElementSeqs == UNION {[1..n -> Elements] : n \in 0..MaxDecls}

\* The element abidw writes for a declaration, with every attribute and child the
\* parser reads.
Element(tag, attrs, children) == [tag |-> tag, attrs |-> attrs, children |-> children]

FullVarDecl(n) ==
    Element("var-decl",
        ("name" :> n) @@ ("type-id" :> "t0") @@ ("visibility" :> "default")
        @@ ("filepath" :> "widget.h"), <<>>)

FullFunctionDecl(n) ==
    Element("function-decl",
        ("name" :> n) @@ ("mangled-name" :> "_Z1f") @@ ("filepath" :> "widget.h"),
        <<Element("parameter", ("type-id" :> "t0") @@ ("name" :> "w"), <<>>),
          Element("return", ("type-id" :> "t0"), <<>>)>>)

FullDataMember(children) ==
    Element("data-member", ("access" :> "public") @@ ("layout-offset-in-bits" :> "0"),
            children)

FullElement(tag, n) ==
    CASE tag = "class-decl" ->
            Element(tag,
                ("name" :> n) @@ ("is-struct" :> "yes") @@ ("visibility" :> "default")
                @@ ("size-in-bits" :> "64") @@ ("filepath" :> "widget.h")
                @@ ("hash" :> "h1") @@ ("id" :> "t1"),
                <<FullDataMember(<<FullVarDecl("count")>>)>>)
      [] tag = "typedef-decl" ->
            Element(tag,
                ("name" :> n) @@ ("type-id" :> "t1") @@ ("id" :> "t2")
                @@ ("filepath" :> "widget.h"), <<>>)
      [] tag = "type-decl" ->
            Element(tag,
                ("name" :> n) @@ ("size-in-bits" :> "8") @@ ("hash" :> "h0")
                @@ ("id" :> "t0"), <<>>)
      [] tag = "function-decl" -> FullFunctionDecl(n)
      [] tag = "var-decl" -> FullVarDecl(n)

FullSymbol(n) ==
    Element("elf-symbol",
        ("name" :> n) @@ ("size" :> "8") @@ ("type" :> "func-type")
        @@ ("binding" :> "global-binding") @@ ("visibility" :> "default-visibility")
        @@ ("is-defined" :> "yes"), <<>>)

Root(instrs) ==
    Element("abi-corpus", ("path" :> "libwidget.so"),
        <<Element("elf-function-symbols", <<>>, <<FullSymbol("widget_free")>>),
          Element("elf-variable-symbols", <<>>, <<FullSymbol("widget_count")>>)>>
        \o [k \in 1..Len(instrs) |-> Element("abi-instr", <<>>, instrs[k])])

FullElements(elts) == [k \in 1..Len(elts) |-> FullElement(elts[k].tag, elts[k].name)]

\* A well-formed document with two abi-instr: the first cut of the declarations in
\* one, the rest in the other.
Document(elts, cut) ==
    Root(<<FullElements(SubSeq(elts, 1, cut)),
           FullElements(SubSeq(elts, cut + 1, Len(elts)))>>)

HeaderLists(stype) ==
    {<<>>, <<HeaderSymbol(stype, "Widget")>>, <<HeaderSymbol(stype, "widget_free")>>,
     <<HeaderSymbol(stype, "widget_free"), HeaderSymbol(stype, "Widget")>>}

VarDeclLists ==
    <<<<>>,
      <<[cls |-> "VarDecl", name |-> "widget_free"], [cls |-> "VarDecl", name |-> "Widget"]>>>>
VarSymbolLists == <<<<>>, <<[name |-> "widget_free"]>>>>

InitSuppress ==
    /\ pc = "start"
    /\ exc = "none"
    /\ stdout = <<>>
    /\ IdleProduct
    /\ IdleDiff
    /\ \E elts \in ElementSeqs : \E cut \in {0, Len(elts) - 1} \cap 0..Len(elts) :
          xml_doc = Document(elts, cut)
    /\ abi = NoCorpus
    /\ \E ht \in HeaderLists("STRUCTDEF"), hf \in HeaderLists("FUNDEF") :
          \E hv \in {<<>>, <<HeaderSymbol("EXTERNDEF", "Widget")>>} :
              header = <<ht, hf, hv>>
    /\ text = <<>>
    /\ other = NoOther
    /\ IdleParse

FromXml ==
    /\ pc = "start"
    /\ \E r \in {from_xml(xml_doc)} :
           /\ abi' = IF r.raised THEN abi ELSE r.value
           /\ exc' = r.exc
           /\ pc' = IF r.raised THEN "raised" ELSE "parsed"
    /\ UNCHANGED <<stdout, productVars, sweepVars, diffVars, xml_doc, header, text, other>>
    /\ UNCHANGED parseVars

Suppress ==
    /\ pc = "parsed"
    /\ text' = suppression_text(abi, header[1], header[2], header[3])
    /\ pc' = "suppressed"
    /\ UNCHANGED <<exc, stdout, productVars, sweepVars, diffVars, xml_doc, abi, header, other>>
    /\ UNCHANGED parseVars

SuppressOther ==
    /\ pc = "suppressed"
    /\ \E k \in 1..2 :
          \E hv \in {<<>>, <<HeaderSymbol("EXTERNDEF", "Widget")>>} :
              LET abi2 == [abi EXCEPT !.var_decls = VarDeclLists[k],
                                          !.var_symbols = VarSymbolLists[k]]
              IN  other' = [abi |-> abi2, header_vars |-> hv,
                            text |-> suppression_text(abi2, header[1], header[2], hv)]
    /\ pc' = "compared"
    /\ UNCHANGED <<exc, stdout, productVars, sweepVars, diffVars, xml_doc, abi, header, text>>
    /\ UNCHANGED parseVars

NextSuppress == FromXml \/ Suppress \/ SuppressOther

SpecSuppress == InitSuppress /\ [][NextSuppress]_vars

(***************************************************************************)
(* SpecXml: ABI.from_xml applied to documents whose elements may lack an   *)
(* attribute or a child, ABI.type_and_function_names applied to the corpus *)
(* it returned, and ABI.from_binaries applied to a list of binaries, abidw *)
(* answering with such a document.                                         *)
(***************************************************************************)
\* The documents: every declaration full, or one of them a variant (an attribute
\* or a child removed), or the root or a symbol a variant, or a text that is not
\* XML. The first declaration is in one abi-instr, the others in a second one.
XmlDocuments ==
    LET
        Drop(e, a) == [e EXCEPT !.attrs = [x \in (DOMAIN e.attrs) \ {a} |-> e.attrs[x]]]
        WithChildren(e, cs) == [e EXCEPT !.children = cs]
        DropChildren(e, tag) == WithChildren(e, SelectSeq(e.children, LAMBDA c : c.tag # tag))
        AttrVariants(e) == {Drop(e, a) : a \in DOMAIN e.attrs}

        NameOfTag ==
            ("type-decl" :> "int") @@ ("class-decl" :> "Widget") @@ ("typedef-decl" :> "widget_t")
            @@ ("function-decl" :> "widget_free") @@ ("var-decl" :> "widget_count")

        TopTags == DOMAIN NameOfTag

        FunctionVariants(f) ==
            AttrVariants(f)
            \cup {DropChildren(f, "return"), DropChildren(f, "parameter"),
                  WithChildren(f, <<Element("return", <<>>, <<>>)>>)}

        DataMemberVariants ==
            LET v == FullVarDecl("count")
                f == FullFunctionDecl("get")
            IN  {FullDataMember(cs) :
                    cs \in {<<v>>, <<f>>, <<f, v>>, <<DropChildren(f, "return"), v>>, <<>>,
                            <<Drop(v, "name")>>, <<Drop(v, "filepath")>>,
                            <<DropChildren(f, "return")>>}}
                \cup AttrVariants(FullDataMember(<<v>>))

        \* The element of a tag and the ways it may differ from the full one.
        Variants(tag) ==
            LET e == FullElement(tag, NameOfTag[tag])
            IN  CASE tag = "class-decl" ->
                        AttrVariants(e) \cup {WithChildren(e, <<>>)}
                        \cup {WithChildren(e, <<m>>) : m \in DataMemberVariants}
                        \cup {WithChildren(e, <<FullDataMember(<<FullVarDecl("count")>>), m>>) :
                                 m \in {FullDataMember(<<>>)}}
                  [] tag = "function-decl" -> FunctionVariants(e)
                  [] OTHER -> AttrVariants(e)

        RootVariants(r) ==
            LET funs == r.children[1]
                vars_ == r.children[2]
                rest == SubSeq(r.children, 3, Len(r.children))
            IN  {Drop(r, "path"), DropChildren(r, "elf-function-symbols"),
                 DropChildren(r, "elf-variable-symbols"),
                 WithChildren(r, <<WithChildren(funs, <<>>), vars_>> \o rest)}
                \cup {WithChildren(r, <<WithChildren(funs, <<Drop(funs.children[1], a)>>), vars_>>
                                      \o rest) : a \in {"name", "size", "is-defined"}}
                \cup {WithChildren(r, <<funs, WithChildren(vars_, <<Drop(vars_.children[1], a)>>)>>
                                      \o rest) : a \in {"visibility"}}

        TagSeqs == UNION {[1..n -> TopTags] : n \in 0..MaxElts}

        \* The first declaration in one abi-instr, the others in a second one.
        TwoInstrs(elts) ==
            Root(<<SubSeq(elts, 1, IF Len(elts) = 0 THEN 0 ELSE 1), SubSeq(elts, 2, Len(elts))>>)

        FullSeq(ks) == [k \in 1..Len(ks) |-> FullElement(ks[k], NameOfTag[ks[k]])]
    IN  {NotXml}
        \cup UNION {{TwoInstrs(FullSeq(ks))} \cup RootVariants(TwoInstrs(FullSeq(ks)))
                    \cup {TwoInstrs([FullSeq(ks) EXCEPT ![pos] = v]) :
                             pos \in 1..Len(ks),
                             v \in UNION {Variants(t) : t \in TopTags}}
                    : ks \in TagSeqs}

AbidwProcs ==
    {[kind |-> "missing", rc |-> 0], [kind |-> "exit", rc |-> 0], [kind |-> "exit", rc |-> 1]}

InitXml ==
    /\ pc = "start"
    /\ exc = "none"
    /\ stdout = <<>>
    /\ IdleProduct
    /\ IdleDiff
    /\ xml_doc \in XmlDocuments
    /\ abi = NoCorpus
    /\ header = <<<<>>, <<>>, <<>>>>
    /\ text = <<>>
    /\ other = NoOther
    /\ names = <<<<>>, <<>>>>
    /\ \/ proc = NoTool /\ spec_libs = <<>>
       \/ proc \in AbidwProcs /\ spec_libs \in {LibsOf("c1"), LibsOf("c2")}
    /\ header_text = <<>>
    /\ blocks = <<>>
    /\ symbols = NoParse

\* ABI.from_binaries(spec_libs), abidw writing xml_doc to its standard output.
FromBinaries ==
    /\ pc = "start"
    /\ proc # NoTool
    /\ \E r \in {from_binaries(spec_libs,
                    [kind |-> proc.kind, rc |-> proc.rc, stdout |-> xml_doc])} :
           /\ abi' = IF r.raised THEN abi ELSE r.abi
           /\ exc' = r.exc
           /\ pc' = IF r.raised THEN "raised" ELSE "parsed"
    /\ UNCHANGED <<stdout, productVars, sweepVars, diffVars, xml_doc, header, text, other>>
    /\ UNCHANGED parseVars

\* ABI.from_xml(xml_doc), the document given directly.
FromXmlText ==
    /\ proc = NoTool
    /\ FromXml

TypeAndFunctionNames ==
    /\ pc = "parsed"
    /\ names' = type_and_function_names(abi)
    /\ pc' = "named"
    /\ UNCHANGED <<exc, stdout, productVars, sweepVars, diffVars>>
    /\ UNCHANGED <<xml_doc, abi, header, text, other, spec_libs, proc, header_text, blocks,
                   symbols>>

NextXml == FromXmlText \/ FromBinaries \/ TypeAndFunctionNames

SpecXml == InitXml /\ [][NextXml]_vars

(***************************************************************************)
(* SpecHeader: parse_header, _parse_blocks and HeaderBlock.parse on the    *)
(* output of gcc -E for a header. The text starts with a line marker, as   *)
(* the preprocessor's output does; after it come line markers, #pragma     *)
(* lines (the preprocessor passes them through), blank lines and           *)
(* declarations, each declaration on a line of its own.                    *)
(***************************************************************************)
\* The lines of the texts: the line markers, a #pragma line, the blank line, and
\* the declarations, one to a line, with the nodes tree-sitter makes of them.
SourceLine ==
    LET Leaf(type, txt) ==
            [type |-> type, txt |-> txt, declarator |-> <<>>, name |-> <<>>]
        WithDeclarator(type, txt, d) ==
            [type |-> type, txt |-> txt, declarator |-> <<d>>, name |-> <<>>]
        WithName(type, txt, n) ==
            [type |-> type, txt |-> txt, declarator |-> <<>>, name |-> <<n>>]
        Words(ws) == [k \in 1..Len(ws) |-> <<ws[k]>>]
        Line(ws, nodes) == [words |-> Words(ws), nodes |-> nodes]
        \* # 1 "<path>" <flags>
        LineMarker(path, flags) ==
            [words |-> <<<<"#">>, <<"1">>, <<"\"", path, "\"">>>> \o Words(flags),
             nodes |-> <<>>]
        Semicolon == Leaf(";", <<";">>)
    IN  [
         PlainMarker |-> LineMarker("/opt/c1/include/widget.h", <<>>),
         SystemMarker |-> LineMarker("/usr/include/stdio.h", <<"1", "3", "4">>),
         \* # 1 "/opt/my headers/widget.h": the path has a space in it
         SpacedMarker |->
            [words |-> <<<<"#">>, <<"1">>, <<"\"", "/opt/my">>,
                        <<"headers/widget.h", "\"">>>>,
             nodes |-> <<>>],
         \* #pragma pack(1)
         PragmaLine |-> [words |-> <<<<"#", "pragma">>, <<"pack(1)">>>>, nodes |-> <<>>],
         BlankLine |-> [words |-> <<>>, nodes |-> <<>>],
         \* typedef int widget_t;
         TypedefLine |->
            Line(<<"typedef", "int", "widget_t;">>,
                 <<WithDeclarator("type_definition", <<"typedef int widget_t;">>,
                                  Leaf("type_identifier", <<"widget_t">>))>>),
         \* typedef void (*widget_cb)(int);
         TypedefCallbackLine |->
            Line(<<"typedef", "void", "(*widget_cb)(int);">>,
                 <<WithDeclarator("type_definition", <<"typedef void (*widget_cb)(int);">>,
                      WithDeclarator("function_declarator", <<"(*widget_cb)(int)">>,
                          Leaf("parenthesized_declarator", <<"(", "*widget_cb", ")">>)))>>),
         \* typedef int widget_fn(int);
         TypedefFunctionLine |->
            Line(<<"typedef", "int", "widget_fn(int);">>,
                 <<WithDeclarator("type_definition", <<"typedef int widget_fn(int);">>,
                      WithDeclarator("function_declarator", <<"widget_fn(int)">>,
                          Leaf("type_identifier", <<"widget_fn">>)))>>),
         \* typedef char *widget_str;
         TypedefPointerLine |->
            Line(<<"typedef", "char", "*widget_str;">>,
                 <<WithDeclarator("type_definition", <<"typedef char *widget_str;">>,
                      WithDeclarator("pointer_declarator", <<"*widget_str">>,
                          Leaf("type_identifier", <<"widget_str">>)))>>),
         \* typedef int widget_arr[4];
         TypedefArrayLine |->
            Line(<<"typedef", "int", "widget_arr[4];">>,
                 <<WithDeclarator("type_definition", <<"typedef int widget_arr[4];">>,
                      WithDeclarator("array_declarator", <<"widget_arr[4]">>,
                          Leaf("type_identifier", <<"widget_arr">>)))>>),
         \* void widget_free(void);
         FunctionLine |->
            Line(<<"void", "widget_free(void);">>,
                 <<WithDeclarator("declaration", <<"void widget_free(void);">>,
                      WithDeclarator("function_declarator", <<"widget_free(void)">>,
                          Leaf("identifier", <<"widget_free">>)))>>),
         \* void (*widget_handler(int))(int);
         FunctionReturningPointerLine |->
            Line(<<"void", "(*widget_handler(int))(int);">>,
                 <<WithDeclarator("declaration", <<"void (*widget_handler(int))(int);">>,
                      WithDeclarator("function_declarator", <<"(*widget_handler(int))(int)">>,
                          Leaf("parenthesized_declarator", <<"(", "*widget_handler(int)", ")">>)))>>),
         \* char *widget_name;
         PointerLine |->
            Line(<<"char", "*widget_name;">>,
                 <<WithDeclarator("declaration", <<"char *widget_name;">>,
                      WithDeclarator("pointer_declarator", <<"*widget_name">>,
                          Leaf("identifier", <<"widget_name">>)))>>),
         \* extern int widget_count;
         ExternLine |->
            Line(<<"extern", "int", "widget_count;">>,
                 <<WithDeclarator("declaration", <<"extern int widget_count;">>,
                                  Leaf("identifier", <<"widget_count">>))>>),
         \* extern int widget_sizes[4];
         ArrayLine |->
            Line(<<"extern", "int", "widget_sizes[4];">>,
                 <<WithDeclarator("declaration", <<"extern int widget_sizes[4];">>,
                      WithDeclarator("array_declarator", <<"widget_sizes[4]">>,
                          Leaf("identifier", <<"widget_sizes">>)))>>),
         \* static const int widget_max = 8;
         InitLine |->
            Line(<<"static", "const", "int", "widget_max", "=", "8;">>,
                 <<WithDeclarator("declaration", <<"static const int widget_max = 8;">>,
                      WithDeclarator("init_declarator", <<"widget_max = 8">>,
                          Leaf("identifier", <<"widget_max">>)))>>),
         \* struct Widget { int x; };
         StructLine |->
            Line(<<"struct", "Widget", "{", "int", "x;", "};">>,
                 <<WithName("struct_specifier", <<"struct Widget { int x; }">>,
                            Leaf("type_identifier", <<"Widget">>)), Semicolon>>),
         \* struct { int x; };
         AnonymousStructLine |->
            Line(<<"struct", "{", "int", "x;", "};">>,
                 <<Leaf("struct_specifier", <<"struct { int x; }">>), Semicolon>>),
         \* enum Color { RED };
         EnumLine |->
            Line(<<"enum", "Color", "{", "RED", "};">>,
                 <<WithName("enum_specifier", <<"enum Color { RED }">>,
                            Leaf("type_identifier", <<"Color">>)), Semicolon>>),
         \* enum { WIDGET_MAX };
         AnonymousEnumLine |->
            Line(<<"enum", "{", "WIDGET_MAX", "};">>,
                 <<Leaf("enum_specifier", <<"enum { WIDGET_MAX }">>), Semicolon>>),
         \* static inline int widget_one(void) { return 1; }
         FunctionDefinitionLine |->
            Line(<<"static", "inline", "int", "widget_one(void)", "{", "return", "1;", "}">>,
                 <<Leaf("function_definition",
                        <<"static inline int widget_one(void) { return 1; }">>)>>)]

\* The texts: a first marker and up to MaxLines - 1 lines of any kind after it, or
\* one marker and up to MaxNodes declarations of every shape.
HeaderTexts ==
    LET SeqsUpTo(S, n) == UNION {[1..k -> S] : k \in 0..n}
        NotCode == {"PlainMarker", "SystemMarker", "SpacedMarker", "PragmaLine",
                    "BlankLine"}
        CodeLines == {SourceLine[k] : k \in (DOMAIN SourceLine) \ NotCode}
        TextLines ==
            {SourceLine[k] : k \in {"PlainMarker", "SystemMarker", "PragmaLine",
                                     "BlankLine", "TypedefLine", "FunctionLine",
                                     "ExternLine", "AnonymousStructLine"}}
    IN  {<<first>> \o rest :
            first \in {SourceLine.PlainMarker, SourceLine.SystemMarker,
                       SourceLine.SpacedMarker},
            rest \in SeqsUpTo(TextLines, MaxLines - 1)}
        \cup {<<SourceLine.PlainMarker>> \o rest : rest \in SeqsUpTo(CodeLines, MaxNodes)}

GccProcs ==
    {[kind |-> "missing", rc |-> 0], [kind |-> "exit", rc |-> 0], [kind |-> "exit", rc |-> 1]}

InitHeader ==
    /\ pc = "start"
    /\ exc = "none"
    /\ stdout = <<>>
    /\ IdleProduct
    /\ IdleDiff
    /\ xml_doc = NoDocument
    /\ abi = NoCorpus
    /\ header = <<<<>>, <<>>, <<>>>>
    /\ text = <<>>
    /\ other = NoOther
    /\ names = <<<<>>, <<>>>>
    /\ spec_libs = <<>>
    /\ proc \in GccProcs
    /\ header_text \in HeaderTexts
    /\ blocks = <<>>
    /\ symbols = NoParse

\* parse_header(header_file), gcc -E writing header_text for the file.
ParseHeader ==
    /\ pc = "start"
    /\ \E r \in {parse_header(proc, header_text)} :
           /\ header' = IF r.raised THEN header ELSE r.value
           /\ blocks' = r.kept
           /\ stdout' = stdout \o r.out
           /\ exc' = r.exc
           /\ pc' = IF r.raised THEN "raised" ELSE "header_parsed"
    /\ UNCHANGED <<productVars, xml_doc, abi, text, other, names, spec_libs, proc,
                   header_text, symbols, sweepVars, diffVars>>

\* list(_parse_blocks(header_text)) on the text gcc -E wrote.
ParseBlocks ==
    /\ pc = "start"
    /\ proc.kind = "exit"
    /\ proc.rc = 0
    /\ LET r == _parse_blocks(header_text)
       IN  /\ blocks' = r.value
           /\ exc' = r.exc
           /\ pc' = IF r.raised THEN "blocks_raised" ELSE "blocks"
    /\ UNCHANGED <<stdout, productVars, xml_doc, abi, header, text, other, names,
                   spec_libs, proc, header_text, symbols, sweepVars, diffVars>>

\* b.parse(parser) for one of the blocks.
Parse ==
    /\ pc = "blocks"
    /\ \E k \in 1..Len(blocks) :
          LET r == HeaderBlock_parse(blocks[k])
          IN  /\ symbols' = [of |-> k, value |-> r.value]
              /\ stdout' = stdout \o r.out
              /\ exc' = r.exc
              /\ pc' = IF r.raised THEN "parse_raised" ELSE "block_parsed"
    /\ UNCHANGED <<productVars, xml_doc, abi, header, text, other, names, spec_libs,
                   proc, header_text, blocks, sweepVars, diffVars>>

NextHeader == ParseHeader \/ ParseBlocks \/ Parse

SpecHeader == InitHeader /\ [][NextHeader]_vars

(***************************************************************************)
(* Spec: the commands diff-product (DiffProductCmd.cmd) and diff           *)
(* (DiffCmd.cmd) run one after the other on a machine whose directory of   *)
(* temporary files outlives each of them. diff_specs is followed step by   *)
(* step: entry, NamedTemporaryFile, the write, abidiff, the exit.          *)
(***************************************************************************)
Sides == {"none", "header", "suppr"}

SupprTexts ==
    {<<>>, to_suppression([cls |-> "ClassDecl", name |-> "Widget"]),
     to_suppression([cls |-> "FunctionDecl", name |-> "widget_free"]) \o <<NL>>}

AbidwOutcomes ==
    {[kind |-> "missing", rc |-> 0, stdout |-> NoDocument],
     [kind |-> "exit", rc |-> 1, stdout |-> NoDocument],
     [kind |-> "exit", rc |-> 0,
      stdout |-> Document(<<[tag |-> "class-decl", name |-> "Widget"]>>, 1)]}

AbidiffOutcomes ==
    {[kind |-> "missing", rc |-> 0], [kind |-> "oserror", rc |-> 0]}
    \cup {[kind |-> "exit", rc |-> r] : r \in 0..MaxReturnCode}

NoSideEnv ==
    [header_found |-> FALSE, parsed |-> <<<<>>, <<>>, <<>>>>,
     tool |-> [kind |-> "missing", rc |-> 0, stdout |-> NoDocument],
     readable |-> FALSE, text |-> <<>>]

SideEnvs(side) ==
    CASE side = "header" ->
            {[NoSideEnv EXCEPT !.header_found = f, !.tool = t] :
                f \in BOOLEAN, t \in AbidwOutcomes}
      [] side = "suppr" ->
            {[NoSideEnv EXCEPT !.readable = r, !.text = t] :
                r \in BOOLEAN, t \in SupprTexts}
      [] OTHER -> {NoSideEnv}

Foreign == [exists |-> TRUE, owner |-> 0, content |-> <<"foreign">>, open |-> FALSE]

Init ==
    /\ pc = "idle"
    /\ exc = "none"
    /\ stdout = <<>>
    /\ IdleProduct
    /\ IdleSuppress
    /\ cmd = "none"
    /\ run = 0
    /\ idx = 0
    /\ verdicts = <<>>
    /\ call = NoCall
    /\ ncalls = 0
    /\ suppression_txt = <<>>
    /\ tf = 0
    /\ suppression_file = 0
    /\ result = ReturnNone
    /\ tmpdir \in {[n \in 1..MaxTmpNames |-> NoFile],
                   [n \in 1..MaxTmpNames |-> IF n = 1 THEN Foreign ELSE NoFile]}
    /\ invocations = <<>>

\* DiffProductCmd.cmd up to its loop.
StartDiffProduct ==
    /\ pc = "idle"
    /\ run < MaxRuns
    /\ \E l \in Lists, f \in OutputFormats :
          /\ lst' = l
          /\ comparisons' = cross_product_self(l)
          /\ output_format' = f
    /\ cmd' = "diff-product"
    /\ run' = run + 1
    /\ pc' = "loop"
    /\ UNCHANGED <<exc, stdout, rc, diff_type, outfile, suppressVars, idx, verdicts, diffVars>>

\* The loop takes its next pair and calls diff_specs(c1, c2).
SweepNext ==
    /\ pc = "loop"
    /\ idx < Len(comparisons)
    /\ idx' = idx + 1
    /\ call' = [spec1 |-> comparisons[idx + 1][1][2], spec2 |-> comparisons[idx + 1][2][2],
                side1 |-> "none", side2 |-> "none", show_cmd |-> FALSE]
    /\ ncalls' = ncalls + 1
    /\ pc' = "diff_specs"
    /\ UNCHANGED <<exc, stdout, productVars, suppressVars, cmd, run, verdicts>>
    /\ UNCHANGED <<suppression_txt, tf, suppression_file, result, tmpdir, invocations>>

\* The loop is over: outfile is closed.
SweepEnd ==
    /\ pc = "loop"
    /\ idx = Len(comparisons)
    /\ pc' = "done"
    /\ UNCHANGED <<exc, stdout, productVars, suppressVars, sweepVars, diffVars>>

\* DiffCmd.cmd: diff_specs(spec1, spec2, header1, suppr1, header2, suppr2, show_cmd).
StartDiff ==
    /\ pc = "idle"
    /\ run < MaxRuns
    /\ \E s1 \in Sides, s2 \in Sides, sc \in BOOLEAN :
          call' = [spec1 |-> "c1", spec2 |-> "c2", side1 |-> s1, side2 |-> s2,
                   show_cmd |-> sc]
    /\ cmd' = "diff"
    /\ run' = run + 1
    /\ ncalls' = ncalls + 1
    /\ pc' = "diff_specs"
    /\ UNCHANGED <<exc, stdout, productVars, suppressVars, idx, verdicts>>
    /\ UNCHANGED <<suppression_txt, tf, suppression_file, result, tmpdir, invocations>>

\* diff_specs up to suppression_txt.
DiffSpecsEnter ==
    /\ pc = "diff_specs"
    /\ \E inst \in BOOLEAN, e1 \in SideEnvs(call.side1), e2 \in SideEnvs(call.side2) :
          LET r == diff_specs_suppression_txt(call,
                       [installed |-> inst, e1 |-> e1, e2 |-> e2])
          IN  /\ suppression_txt' = r.text
              /\ exc' = r.exc
              /\ pc' = IF r.raised THEN "raised" ELSE "with"
    /\ UNCHANGED <<stdout, productVars, suppressVars, sweepVars>>
    /\ UNCHANGED <<call, ncalls, tf, suppression_file, result, tmpdir, invocations>>

\* with NamedTemporaryFile(delete_on_close=False) as tf
OpenTemp ==
    /\ pc = "with"
    /\ \E n \in FreeNames(tmpdir) :
          /\ tmpdir' = created_file(tmpdir, n, ncalls)
          /\ tf' = n
    /\ pc' = "in_with"
    /\ UNCHANGED <<exc, stdout, productVars, suppressVars, sweepVars>>
    /\ UNCHANGED <<call, ncalls, suppression_txt, suppression_file, result, invocations>>

\* if len(suppression_txt) != 0: write, close, suppression_file = Path(tf.name)
WriteSuppression ==
    /\ pc = "in_with"
    /\ tmpdir' = IF Len(suppression_txt) # 0
                 THEN written_file(tmpdir, tf, suppression_txt) ELSE tmpdir
    /\ suppression_file' = IF Len(suppression_txt) # 0 THEN tf ELSE 0
    /\ pc' = "abidiff"
    /\ UNCHANGED <<exc, stdout, productVars, suppressVars, sweepVars>>
    /\ UNCHANGED <<call, ncalls, suppression_txt, tf, result, invocations>>

\* result, args = abidiff(...); an exception leaves the with statement.
RunAbidiff ==
    /\ pc = "abidiff"
    /\ \E tool \in AbidiffOutcomes :
          LET r == abidiff(LibsOf(call.spec1), LibsOf(call.spec2), suppression_file,
                           call.show_cmd, <<>>, tool)
          IN  /\ stdout' = stdout \o r.printed
              /\ invocations' =
                    IF r.ran
                    THEN Append(invocations,
                            [call |-> ncalls, idx |-> idx, args |-> r.args,
                             suppr |-> suppression_file,
                             file |-> IF suppression_file # 0
                                      THEN tmpdir[suppression_file] ELSE NoFile,
                             outcome |-> tool])
                    ELSE invocations
              /\ exc' = r.exc
              /\ pc' = IF r.raised THEN "raised" ELSE "ran"
              /\ result' = IF r.raised THEN result ELSE ReturnTuple(r.result, r.args)
              /\ tmpdir' = IF r.raised THEN tmp_exit(tmpdir, tf) ELSE tmpdir
    /\ UNCHANGED <<productVars, suppressVars, sweepVars>>
    /\ UNCHANGED <<call, ncalls, suppression_txt, tf, suppression_file>>

\* The prints after abidiff, the end of the with statement and the return.
DiffSpecsExit ==
    /\ pc = "ran"
    /\ stdout' = stdout \o diff_specs_print(result.result, result.args)
    /\ tmpdir' = tmp_exit(tmpdir, tf)
    /\ pc' = "returned"
    /\ UNCHANGED <<exc, productVars, suppressVars, sweepVars>>
    /\ UNCHANGED <<call, ncalls, suppression_txt, tf, suppression_file, result, invocations>>

\* Back in the loop of DiffProductCmd.cmd: the rest of its body.
SweepAfterCall ==
    /\ pc = "returned"
    /\ cmd = "diff-product"
    /\ LET r == LoopBody(comparisons[idx], diff_specs_return(result.result, result.args),
                         output_format, outfile, stdout)
       IN  /\ outfile' = r.outfile
           /\ stdout' = r.stdout
           /\ exc' = r.exc
           /\ diff_type' = r.diff_type
           /\ verdicts' = IF r.exc = "none" THEN Append(verdicts, r.diff_type) ELSE verdicts
           /\ pc' = IF r.exc = "none" THEN "loop" ELSE "raised"
    /\ UNCHANGED <<rc, lst, comparisons, output_format, suppressVars, cmd, run, idx, diffVars>>

\* Back in DiffCmd.cmd, which ends.
DiffAfterCall ==
    /\ pc = "returned"
    /\ cmd = "diff"
    /\ pc' = "done"
    /\ UNCHANGED <<exc, stdout, productVars, suppressVars, sweepVars, diffVars>>

\* The command has ended; the machine is ready for the next one.
NextRun ==
    /\ pc \in {"done", "raised"}
    /\ run < MaxRuns
    /\ pc' = "idle"
    /\ exc' = "none"
    /\ stdout' = <<>>
    /\ rc' = 0
    /\ diff_type' = "UNSET"
    /\ lst' = <<>>
    /\ comparisons' = <<>>
    /\ output_format' = "raw"
    /\ outfile' = <<>>
    /\ cmd' = "none"
    /\ idx' = 0
    /\ verdicts' = <<>>
    /\ call' = NoCall
    /\ suppression_txt' = <<>>
    /\ tf' = 0
    /\ suppression_file' = 0
    /\ result' = ReturnNone
    /\ invocations' = <<>>
    /\ UNCHANGED <<suppressVars, run, ncalls, tmpdir>>

Next ==
    \/ StartDiffProduct
    \/ SweepNext
    \/ SweepEnd
    \/ StartDiff
    \/ DiffSpecsEnter
    \/ OpenTemp
    \/ WriteSuppression
    \/ RunAbidiff
    \/ DiffSpecsExit
    \/ SweepAfterCall
    \/ DiffAfterCall
    \/ NextRun

Spec == Init /\ [][Next]_vars

(***************************************************************************)
(* C1: for every exit code, return_code_to_diff_type returns exactly one   *)
(* of the four verdicts, the one of the reference rule: 0 gives NONE;      *)
(* otherwise, with bit 2 (value 4) set, HARMFUL when bit 3 (value 8) is    *)
(* set too and HARMLESS when it is not; otherwise ERROR. The bits are read *)
(* here by division, not by the model's BitAnd.                            *)
(***************************************************************************)
Bit(r, k) == (r \div (2 ^ k)) % 2

ReferenceVerdict(r) ==
    IF r = 0 THEN "NONE"
    ELSE IF Bit(r, 2) = 1
         THEN IF Bit(r, 3) = 1 THEN "HARMFUL" ELSE "HARMLESS"
         ELSE "ERROR"

C1_ClassifierTotal ==
    pc \in {"classified", "crossed"} =>
        /\ diff_type \in AbiDiffType
        /\ diff_type = ReferenceVerdict(rc)
        /\ (Bit(rc, 2) = 1 => diff_type \in {"HARMLESS", "HARMFUL"})
        /\ (rc = 12 => diff_type = "HARMFUL")
        /\ (rc = 4 => diff_type = "HARMLESS")
        /\ (rc = 2 => diff_type = "ERROR")
        /\ (rc = 0 => diff_type = "NONE")

\* An exit code with the ABI-changed, incompatible and usage-error bits all set
\* has been classified.
C1_Witness == pc = "classified" /\ rc = 14 /\ diff_type = "HARMFUL"

(***************************************************************************)
(* C2: cross_product_self returns n*(n-1) comparisons for a list of length n:    *)
(* the k-th pair is (lst[i], lst[j]) for the k-th ordered pair of          *)
(* positions i # j in row-major order, so every such pair of positions     *)
(* gives exactly one pair, no position is paired with itself, and equal    *)
(* elements at distinct positions are paired.                              *)
(***************************************************************************)
PosI(k, n) == ((k - 1) \div (n - 1)) + 1
PosJ(k, n) ==
    LET r == ((k - 1) % (n - 1)) + 1
    IN  IF r < PosI(k, n) THEN r ELSE r + 1

C2_CrossProductPositions ==
    pc = "crossed" =>
        LET n == Len(lst)
        IN  /\ Len(comparisons) = n * (n - 1)
            /\ \A k \in 1..Len(comparisons) :
                   /\ PosI(k, n) \in 1..n
                   /\ PosJ(k, n) \in 1..n
                   /\ PosI(k, n) # PosJ(k, n)
                   /\ comparisons[k] = <<lst[PosI(k, n)], lst[PosJ(k, n)]>>
            /\ \A i, j \in 1..n :
                   i # j => Cardinality({k \in 1..Len(comparisons) :
                                            PosI(k, n) = i /\ PosJ(k, n) = j}) = 1

\* A list with equal elements at distinct positions has been paired with itself.
C2_Witness ==
    /\ pc = "crossed"
    /\ Len(lst) = 3
    /\ lst[1] = lst[3]
    /\ Len(comparisons) = 6
    /\ comparisons[2] = <<lst[1], lst[3]>>

(***************************************************************************)
(* C10: in the can_splice format the loop body writes a can_splice         *)
(* assertion for the pair exactly when the verdict is NONE or HARMLESS; a  *)
(* HARMFUL pair gives one comment line and no assertion; an ERROR pair     *)
(* gives a message line followed by the command, argument by argument,     *)
(* and no assertion. Checked on the loop body applied to a comparison      *)
(* result (CompletedProcess, args).                                        *)
(***************************************************************************)
IsAssertion(line) == Len(line) > 0 /\ line[1] = "can_splice(\""
Assertions(ls) == {k \in 1..Len(ls) : IsAssertion(ls[k])}

SectionHeaders == {<<"[suppress_type]">>, <<"[suppress_function]">>}
IsNameLine(l) == Len(l) = 4 /\ l[1] = " " /\ l[2] = " " /\ l[3] = "name = "

RECURSIVE BlocksFrom(_, _)
BlocksFrom(ls, k) ==
    IF k >= Len(ls) THEN <<>>
    ELSE IF ls[k] \in SectionHeaders /\ IsNameLine(ls[k + 1])
         THEN <<[section |-> ls[k][1], name |-> ls[k + 1][4]]>> \o BlocksFrom(ls, k + 1)
         ELSE BlocksFrom(ls, k + 1)

Blocks(t) == BlocksFrom(Lines(t), 1)

\* The elements of the document in document order, and those of some tags
\* whose name is not among the symbols of a header list.
InstrElements(k) ==
    LET elts == findall(xml_doc, "abi-instr")[k].children
    IN  [j \in 1..Len(elts) |-> [tag |-> elts[j].tag, name |-> elts[j].attrs["name"]]]
DocElements == InstrElements(1) \o InstrElements(2)
PrivateNames(tags, header_list) ==
    LET sel == SelectSeq(DocElements,
                   LAMBDA e : e.tag \in tags /\ e.name \notin SymbolsOf(header_list))
    IN  [k \in 1..Len(sel) |-> sel[k].name]
Count(seq, x) == Cardinality({k \in 1..Len(seq) : seq[k] = x})
BlockNames(t, section) ==
    LET sel == SelectSeq(Blocks(t), LAMBDA b : b.section = section)
    IN  [k \in 1..Len(sel) |-> sel[k].name]

TypeTags == {"class-decl", "typedef-decl"}
FunctionTags == {"function-decl"}

BlockLines(b) == <<<<b.section>>, <<" ", " ", "name = ", b.name>>>>

RECURSIVE LinesWithBlankBetween(_)
LinesWithBlankBetween(bs) ==
    IF Len(bs) = 0 THEN <<>>
    ELSE IF Len(bs) = 1 THEN BlockLines(bs[1])
    ELSE BlockLines(bs[1]) \o <<<<>>>> \o LinesWithBlankBetween(Tail(bs))

ExpectedBlocks ==
    LET ty == PrivateNames({"class-decl"}, header[1])
                 \o PrivateNames({"typedef-decl"}, header[1])
        fn == PrivateNames(FunctionTags, header[2])
    IN  [k \in 1..Len(ty) |-> [section |-> "[suppress_type]", name |-> ty[k]]]
        \o [k \in 1..Len(fn) |-> [section |-> "[suppress_function]", name |-> fn[k]]]

SweepEnded == cmd = "diff-product" /\ pc \in {"done", "raised"}

ToolReturnedNormally == exc \notin {"RuntimeError", "OSError", "SpackError"}

C3_SweepComparesAndClassifiesEveryPair ==
    (SweepEnded /\ ToolReturnedNormally) =>
        /\ Len(invocations) = Len(lst) * (Len(lst) - 1)
        /\ Len(verdicts) = Len(invocations)
        /\ \A k \in 1..Len(invocations) :
              /\ comparisons[k] = <<lst[PosI(k, Len(lst))], lst[PosJ(k, Len(lst))]>>
              /\ verdicts[k] = return_code_to_diff_type(invocations[k].outcome.rc)

(***************************************************************************)
(* C4: in the sweep a failing invocation for one pair (tool missing, tool  *)
(* error, usage error) does not abort the remaining pairs: when the sweep  *)
(* has ended, every pair has been compared.                                *)
(***************************************************************************)
InvocationFailed ==
    \/ exc \in {"RuntimeError", "OSError"}
    \/ \E k \in 1..Len(invocations) :
          BitAnd(invocations[k].outcome.rc, DIFF_ERROR + USAGE_ERROR) # 0

C4_FailureDoesNotAbortSweep ==
    (SweepEnded /\ InvocationFailed) => (pc = "done" /\ idx = Len(comparisons))

(***************************************************************************)
(* C9: every call of diff_specs creates a temporary file that did not      *)
(* exist before and that no other call made or uses, the file handed to    *)
(* the tool is that file, and no file of any call exists once the call has *)
(* ended, by return or by an exception of locating or running the tool.    *)
(* Files of others are never touched.                                      *)
(***************************************************************************)
InWith == pc \in {"in_with", "abidiff", "ran"}

OwnedFiles == {n \in DOMAIN tmpdir : tmpdir[n].exists /\ tmpdir[n].owner # 0}

TempFileScoped ==
    /\ InWith => (tf # 0 /\ OwnedFiles = {tf} /\ tmpdir[tf].owner = ncalls)
    /\ ~InWith => OwnedFiles = {}
    /\ \A k \in 1..Len(invocations) :
          invocations[k].suppr # 0 =>
              /\ invocations[k].file.exists
              /\ invocations[k].file.owner = invocations[k].call
              /\ ~invocations[k].file.open

TempFileFresh ==
    /\ (pc = "with" /\ pc' = "in_with") => ~tmpdir[tf'].exists
    /\ \A n \in DOMAIN tmpdir :
          (tmpdir[n].exists /\ tmpdir[n].owner # ncalls) => tmpdir'[n] = tmpdir[n]

C9_TempFileScopedToCall == []TempFileScoped /\ [][TempFileFresh]_vars

C9_Witness ==
    /\ pc = "raised"
    /\ exc = "RuntimeError"
    /\ ncalls = 2
    /\ suppression_file # 0
    /\ ~tmpdir[suppression_file].exists
    /\ tmpdir[1] = Foreign


(***************************************************************************)
(* What a document must have, stated on the document alone: the required   *)
(* attributes of each tag, and the elements ABI.from_xml visits.           *)
(***************************************************************************)
RequiredAttrs ==
    ("abi-corpus" :> {"path"})
    @@ ("elf-symbol" :> {"name", "type", "binding", "visibility", "is-defined"})
    @@ ("type-decl" :> {"name", "id"})
    @@ ("class-decl" :> {"name", "is-struct", "visibility", "id"})
    @@ ("data-member" :> {"access", "layout-offset-in-bits"})
    @@ ("function-decl" :> {"name"})
    @@ ("return" :> {"type-id"})
    @@ ("typedef-decl" :> {"name", "type-id", "id", "filepath"})
    @@ ("var-decl" :> {"name", "type-id", "visibility"})

Kids(e, tag) == SelectSeq(e.children, LAMBDA c : c.tag = tag)

Lacks(e) == ~(RequiredAttrs[e.tag] \subseteq DOMAIN e.attrs)

BadFunction(f) == Lacks(f) \/ Kids(f, "return") = <<>> \/ Lacks(Kids(f, "return")[1])

BadMember(m) ==
    \/ Lacks(m)
    \/ IF Kids(m, "var-decl") # <<>> THEN Lacks(Kids(m, "var-decl")[1])
       ELSE Kids(m, "function-decl") = <<>> \/ BadFunction(Kids(m, "function-decl")[1])

BadTop(e) ==
    CASE e.tag = "class-decl" ->
            Lacks(e) \/ \E k \in 1..Len(Kids(e, "data-member")) :
                            BadMember(Kids(e, "data-member")[k])
      [] e.tag = "function-decl" -> BadFunction(e)
      [] e.tag \in {"type-decl", "typedef-decl", "var-decl"} -> Lacks(e)
      [] OTHER -> FALSE

BadSymbols(doc, container) ==
    /\ Kids(doc, container) # <<>>
    /\ \E k \in 1..Len(Kids(Kids(doc, container)[1], "elf-symbol")) :
          Lacks(Kids(Kids(doc, container)[1], "elf-symbol")[k])

RECURSIVE Concat(_)
Concat(seqs) == IF Len(seqs) = 0 THEN <<>> ELSE Head(seqs) \o Concat(Tail(seqs))

\* The children of the abi-instr elements, in document order; those of one tag.
TopAll(doc) ==
    Concat([k \in 1..Len(Kids(doc, "abi-instr")) |-> Kids(doc, "abi-instr")[k].children])
TopDecls(doc, tag) == SelectSeq(TopAll(doc), LAMBDA e : e.tag = tag)

Malformed(doc) ==
    \/ doc = NotXml
    \/ Lacks(doc)
    \/ Kids(doc, "elf-function-symbols") = <<>>
    \/ BadSymbols(doc, "elf-function-symbols")
    \/ BadSymbols(doc, "elf-variable-symbols")
    \/ \E k \in 1..Len(TopAll(doc)) : BadTop(TopAll(doc)[k])

FromXmlDone == proc = NoTool /\ pc \in {"parsed", "named", "raised"}

(***************************************************************************)
(* C11: ABI.from_xml fails exactly when an element it visits lacks a       *)
(* required attribute or child (or the text is not XML), and then no       *)
(* corpus, whole or partial, is returned; otherwise it returns a corpus    *)
(* with one entry per declaration of the document, in which an optional    *)
(* attribute the element lacks (size-in-bits, hash, filepath,              *)
(* mangled-name) is stored as None.                                        *)
(***************************************************************************)
OptionalStored(decls, elts, field, attr) ==
    /\ Len(decls) = Len(elts)
    /\ \A k \in 1..Len(decls) :
          (decls[k][field] = <<>>) <=> (attr \notin DOMAIN elts[k].attrs)

C11_WholeCorpusOrFailure ==
    FromXmlDone =>
        /\ (pc = "raised") <=> Malformed(xml_doc)
        /\ pc = "raised" => (abi = NoCorpus /\ exc \in {"AttributeError", "ParseError"})
        /\ pc # "raised" =>
              /\ exc = "none"
              /\ Len(abi.typedef_decls) = Len(TopDecls(xml_doc, "typedef-decl"))
              /\ Len(abi.fun_symbols)
                    = Len(Kids(Kids(xml_doc, "elf-function-symbols")[1], "elf-symbol"))
              /\ OptionalStored(abi.type_decls, TopDecls(xml_doc, "type-decl"),
                                "size", "size-in-bits")
              /\ OptionalStored(abi.type_decls, TopDecls(xml_doc, "type-decl"),
                                "hash", "hash")
              /\ OptionalStored(abi.class_decls, TopDecls(xml_doc, "class-decl"),
                                "size", "size-in-bits")
              /\ OptionalStored(abi.class_decls, TopDecls(xml_doc, "class-decl"),
                                "hash", "hash")
              /\ OptionalStored(abi.class_decls, TopDecls(xml_doc, "class-decl"),
                                "filepath", "filepath")
              /\ OptionalStored(abi.fun_decls, TopDecls(xml_doc, "function-decl"),
                                "filepath", "filepath")
              /\ OptionalStored(abi.fun_decls, TopDecls(xml_doc, "function-decl"),
                                "mangled_name", "mangled-name")
              /\ OptionalStored(abi.var_decls, TopDecls(xml_doc, "var-decl"),
                                "filepath", "filepath")

\* A document whose first declaration is complete and whose second one lacks a
\* required attribute has been refused.
C11_Witness ==
    /\ FromXmlDone
    /\ pc = "raised"
    /\ exc = "AttributeError"
    /\ abi = NoCorpus
    /\ Len(TopAll(xml_doc)) = 2
    /\ ~BadTop(TopAll(xml_doc)[1])
    /\ TopAll(xml_doc)[2].tag = "typedef-decl"
    /\ "filepath" \notin DOMAIN TopAll(xml_doc)[2].attrs

(***************************************************************************)
(* C12: every data-member element of a parsed class has exactly one        *)
(* declaration: the VarDecl of its nested var-decl when it has one, even   *)
(* with a function-decl beside it, otherwise the FunctionDecl of its       *)
(* nested function-decl; a data-member with neither makes the parse fail.  *)
(***************************************************************************)
MembersOf(doc) ==
    Concat([k \in 1..Len(TopDecls(doc, "class-decl")) |->
                Kids(TopDecls(doc, "class-decl")[k], "data-member")])

ParsedMembers(a) ==
    Concat([k \in 1..Len(a.class_decls) |-> a.class_decls[k].data_members])

C12_DataMemberVariant ==
    FromXmlDone =>
        /\ (\E k \in 1..Len(MembersOf(xml_doc)) :
                /\ Kids(MembersOf(xml_doc)[k], "var-decl") = <<>>
                /\ Kids(MembersOf(xml_doc)[k], "function-decl") = <<>>)
              => pc = "raised"
        /\ pc # "raised" =>
              /\ Len(ParsedMembers(abi)) = Len(MembersOf(xml_doc))
              /\ \A k \in 1..Len(ParsedMembers(abi)) :
                    LET m == MembersOf(xml_doc)[k]
                        d == ParsedMembers(abi)[k].decl
                    IN  IF Kids(m, "var-decl") # <<>>
                        THEN /\ d.cls = "VarDecl"
                             /\ d.name = Kids(m, "var-decl")[1].attrs["name"]
                        ELSE /\ d.cls = "FunctionDecl"
                             /\ d.name = Kids(m, "function-decl")[1].attrs["name"]

\* A data member with both a function-decl and a var-decl has been parsed.
C12_Witness ==
    /\ FromXmlDone
    /\ pc = "parsed"
    /\ Len(MembersOf(xml_doc)) = 1
    /\ Kids(MembersOf(xml_doc)[1], "function-decl") # <<>>
    /\ Kids(MembersOf(xml_doc)[1], "var-decl") # <<>>
    /\ ParsedMembers(abi)[1].decl.cls = "VarDecl"

(***************************************************************************)
(* C13: the type names type_and_function_names returns are the names of    *)
(* the class declarations followed by those of the typedef declarations,   *)
(* and the function names those of the function declarations, each         *)
(* declaration of the corpus once and in order; no name of a basic type,   *)
(* of a variable or of an elf symbol is among them.                        *)
(***************************************************************************)
AttrNames(elts) == [k \in 1..Len(elts) |-> elts[k].attrs["name"]]

C13_NamesPartition ==
    pc = "named" =>
        /\ names[1] = AttrNames(TopDecls(xml_doc, "class-decl"))
                      \o AttrNames(TopDecls(xml_doc, "typedef-decl"))
        /\ names[2] = AttrNames(TopDecls(xml_doc, "function-decl"))
        /\ Len(names[1]) = Len(abi.class_decls) + Len(abi.typedef_decls)
        /\ Len(names[2]) = Len(abi.fun_decls)
        /\ \A k \in 1..Len(names[1]) :
              names[1][k] \notin {"int", "widget_count", "widget_free", "count"}
        /\ \A k \in 1..Len(names[2]) :
              names[2][k] \notin {"int", "widget_count", "count", "get"}

\* A corpus with a basic type and a class has been asked for its names.
C13_Witness ==
    /\ pc = "named"
    /\ Len(abi.type_decls) = 1
    /\ Len(abi.class_decls) = 1
    /\ names = <<<<"Widget">>, <<>>>>

(***************************************************************************)
(* C17: when abidw exits with status 0 for the list of binaries,           *)
(* ABI.from_binaries returns the corpus ABI.from_xml makes of its standard *)
(* output; when it exits with another status, from_binaries raises         *)
(* RuntimeError.                                                           *)
(***************************************************************************)
C17_FromBinariesReturnsCorpus ==
    (proc # NoTool /\ proc.kind = "exit" /\ pc # "start") =>
        IF proc.rc # 0 THEN pc = "raised" /\ exc = "RuntimeError"
        ELSE IF Malformed(xml_doc) THEN pc = "raised"
        ELSE pc # "raised" /\ abi = from_xml(xml_doc).value

(***************************************************************************)
(* The preprocessed text read line by line: the lines starting with `#`,   *)
(* the non-blank lines each of them owns, and what a line declares.        *)
(***************************************************************************)
MarkerIdx == {i \in 1..Len(header_text) : header_text[i].words # <<>>
                                          /\ header_text[i].words[1][1] = "#"}

NextMarker(i) ==
    IF \E j \in MarkerIdx : j > i
    THEN CHOOSE j \in MarkerIdx : j > i /\ \A m \in MarkerIdx : m > i => j <= m
    ELSE Len(header_text) + 1

Body(i) ==
    SelectSeq(SubSeq(header_text, i + 1, NextMarker(i) - 1), LAMBDA l : l.words # <<>>)

IsSystem(i) ==
    \E k \in 4..Len(header_text[i].words) : header_text[i].words[k] = <<"3">>

Surviving == {i \in MarkerIdx : ~IsSystem(i) /\ Body(i) # <<>>}

\* The n-th element of a set of positions.
Nth(S, n) == CHOOSE i \in S : Cardinality({j \in S : j <= i}) = n

\* The symbols of the lines ls, for lines whose nodes raise nothing.
DeclaredBy(ls) ==
    Concat([k \in 1..Len(ls) |->
              Concat([m \in 1..Len(ls[k].nodes) |-> parse_node(ls[k].nodes[m]).value])])

SurvivingSymbols ==
    Concat([n \in 1..Cardinality(Surviving) |-> DeclaredBy(Body(Nth(Surviving, n)))])

(***************************************************************************)
(* C14: when parse_header returns, the blocks it has parsed are exactly    *)
(* the blocks whose marker has no system-file flag (3) and which own a     *)
(* non-blank line, in the order of the text, and the symbols of the three  *)
(* lists are the symbols declared in these blocks: none comes from a       *)
(* system-flagged block.                                                   *)
(***************************************************************************)
C14_OnlyNonSystemBlocksParsed ==
    pc = "header_parsed" =>
        /\ Len(blocks) = Cardinality(Surviving)
        /\ \A n \in 1..Len(blocks) : blocks[n].txt = Body(Nth(Surviving, n))
        /\ Len(header[1]) + Len(header[2]) + Len(header[3]) = Len(SurvivingSymbols)
        /\ \A k \in 1..3 : \A m \in 1..Len(header[k]) :
              \E j \in 1..Len(SurvivingSymbols) : header[k][m] = SurvivingSymbols[j]

\* A text with declarations under a system-flagged marker and under an
\* unflagged one has been parsed, and one block was.
C14_Witness ==
    /\ pc = "header_parsed"
    /\ \E i \in MarkerIdx : IsSystem(i) /\ Body(i) # <<>>
    /\ \E i \in MarkerIdx : ~IsSystem(i) /\ Body(i) # <<>>
    /\ Len(blocks) = 1
    /\ Len(header[1]) + Len(header[2]) + Len(header[3]) = 1

(***************************************************************************)
(* C15: when parse_header returns, the function list is the FUNDEF symbols *)
(* of the parsed blocks, the variable list the EXTERNDEF symbols and the   *)
(* type list the TYPEDEF, PTRDEF, STRUCTDEF and ENUMDEF symbols, each in   *)
(* block order then declaration order; every symbol is in exactly one of   *)
(* the three lists.                                                        *)
(***************************************************************************)
OfStypes(syms, stypes) == SelectSeq(syms, LAMBDA s : s.stype \in stypes)

C15_SymbolsPartitioned ==
    pc = "header_parsed" =>
        /\ header[1] = OfStypes(SurvivingSymbols, {"TYPEDEF", "PTRDEF", "STRUCTDEF", "ENUMDEF"})
        /\ header[2] = OfStypes(SurvivingSymbols, {"FUNDEF"})
        /\ header[3] = OfStypes(SurvivingSymbols, {"EXTERNDEF"})
        /\ Len(header[1]) + Len(header[2]) + Len(header[3]) = Len(SurvivingSymbols)

\* A pointer declaration and a function declaration have been sorted.
C15_Witness ==
    /\ pc = "header_parsed"
    /\ Len(header[1]) = 1
    /\ header[1][1].stype = "PTRDEF"
    /\ Len(header[2]) = 1
    /\ header[3] = <<>>

(***************************************************************************)
(* C16: HeaderBlock.parse returns for every block, whatever the shape of   *)
(* its top-level nodes, and what it returns is the symbols of the nodes it *)
(* recognizes, in order, the other nodes being skipped.                    *)
(***************************************************************************)
RecognizedSymbols(nodes) ==
    Concat([m \in 1..Len(nodes) |->
              IF parse_node(nodes[m]).raised THEN <<>> ELSE parse_node(nodes[m]).value])

C16_ParseNeverRaises ==
    pc \in {"block_parsed", "parse_raised"} =>
        /\ pc = "block_parsed"
        /\ exc = "none"
        /\ symbols.value = RecognizedSymbols(NodesOf(blocks[symbols.of].txt))

(***************************************************************************)
(* C20: for a text with k >= 1 lines starting with `#`, _parse_blocks      *)
(* yields k blocks, the n-th with the file and the flags of the n-th such  *)
(* line and with the non-blank lines between it and the next one as its    *)
(* text.                                                                   *)
(***************************************************************************)
C20_OneBlockPerMarker ==
    (pc \in {"blocks", "blocks_raised"} /\ Cardinality(MarkerIdx) >= 1) =>
        /\ pc = "blocks"
        /\ Len(blocks) = Cardinality(MarkerIdx)
        /\ \A n \in 1..Len(blocks) :
              LET marker == header_text[Nth(MarkerIdx, n)]
              IN  /\ blocks[n].file = Inner(marker.words[3])
                  /\ Len(blocks[n].flags) = Len(marker.words) - 3
                  /\ \A k \in 1..Len(blocks[n].flags) :
                        <<blocks[n].flags[k]>> = <<FlagOf[marker.words[k + 3][1]]>>
                  /\ blocks[n].txt = Body(Nth(MarkerIdx, n))

(***************************************************************************)
(* C18: the lines diff_specs prints after the tool has returned are, when  *)
(* the return code has the usage-error bit (2) set, the notice, the        *)
(* command and the tool's stderr, without its stdout; for any other return *)
(* code they are the tool's stdout and its stderr.                         *)
(***************************************************************************)
PrintedBy(before, after) == SubSeq(after, Len(before) + 1, Len(after))

UsageErrorReport(res, args) ==
    <<<<"There was an error in running abidiff, below is the underlying command:">>>>
    \o print_cmd(args)
    \o <<<<"STDERR: ", res.stderr>>>>

C18_UsageErrorReported ==
    [][(pc = "ran" /\ pc' = "returned") =>
          IF Bit(result.result.returncode, 1) = 1
          THEN /\ PrintedBy(stdout, stdout') = UsageErrorReport(result.result, result.args)
               /\ \A k \in 1..Len(PrintedBy(stdout, stdout')) :
                     PrintedBy(stdout, stdout')[k] # <<result.result.stdout>>
          ELSE PrintedBy(stdout, stdout') = <<<<result.result.stdout>>,
                                              <<result.result.stderr>>>>]_vars

(***************************************************************************)
(* C19: when diff_specs is called with a suppression source on both sides, *)
(* every section header of the combined text is the first thing on its     *)
(* line, and the text has as many blocks as it has section headers, which  *)
(* is the sum of the blocks of the two sides.                              *)
(***************************************************************************)
HeaderPositions(t) ==
    {k \in 1..Len(t) : t[k] \in {"[suppress_type]", "[suppress_function]"}}

C19_CombinedTextWellFormed ==
    (call.side1 # "none" /\ call.side2 # "none") =>
        /\ \A k \in HeaderPositions(suppression_txt) :
              k = 1 \/ suppression_txt[k - 1] = NL
        /\ Len(Blocks(suppression_txt)) = Cardinality(HeaderPositions(suppression_txt))

(***************************************************************************)
(* C21: every time diff_specs runs the comparison tool, the argument list  *)
(* has --suppr exactly when the combined suppression text is non-empty,    *)
(* and then it names the temporary file of this call, which at that moment *)
(* exists, is closed and holds exactly the combined text; the file is      *)
(* still there when the tool has returned.                                 *)
(***************************************************************************)
SupprPositions(args) == {k \in 1..Len(args) : args[k] = <<"--suppr">>}

ToolRuns == Len(invocations') = Len(invocations) + 1

C21_ToolSeesWrittenFile ==
    [][ToolRuns =>
          LET args == invocations'[Len(invocations')].args
          IN  /\ (SupprPositions(args) # {}) <=> (Len(suppression_txt) # 0)
              /\ \A k \in SupprPositions(args) :
                    /\ k < Len(args)
                    /\ tf # 0
                    /\ args[k + 1] = TmpPath(tf)
                    /\ tmpdir[tf].exists
                    /\ ~tmpdir[tf].open
                    /\ tmpdir[tf].content = suppression_txt
                    /\ pc' = "ran" => (tmpdir'[tf].exists
                                       /\ tmpdir'[tf].content = suppression_txt)]_vars

\* The tool has run with the file of a non-empty suppression text and returned.
C21_Witness ==
    /\ pc = "ran"
    /\ Len(suppression_txt) # 0
    /\ Len(invocations) > 0
    /\ SupprPositions(invocations[Len(invocations)].args) # {}
    /\ invocations[Len(invocations)].file.content = suppression_txt
    /\ tmpdir[tf].exists

====
